---- MODULE Spec2Model ----
(***************************************************************************)
(* A model of the "Rhythm of the Machines" analysis engine                 *)
(* (utils/analysis.py) and of the Streamlit session that drives it         *)
(* (app.py and the pages Upload_Data.py, Processing.py, Dashboard.py,      *)
(* Insights.py).                                                           *)
(*                                                                         *)
(* Numbers.  The code computes in IEEE doubles (numpy.float64).  The model *)
(* computes in exact rationals [n |-> numerator, d |-> denominator], kept  *)
(* in lowest terms with d > 0, and keeps the one non-number the code can   *)
(* produce, NaN, as the value with d = 0.  NaN propagates through every    *)
(* arithmetic operation and makes every comparison false, as in IEEE.      *)
(* Rounding to decimals goes to the nearest, a tie to the even neighbour   *)
(* (numpy rounds with rint).  Where the last digit of a double decides,    *)
(* the step is computed in binary64 itself, digit by digit: the deviations *)
(* of a constant series from its mean (on which it depends whether the     *)
(* correlation is 0/0), the comparison of the two means of the trend rule, *)
(* and the formatting of a median that lies midway between two decimals.   *)
(*                                                                         *)
(* Cells.  A work_hours cell is a decimal with one fractional digit, held  *)
(* as its number of tenths (76 is 7.6 hours); the other cells are          *)
(* integers, and dates are day numbers.                                    *)
(***************************************************************************)
EXTENDS Integers, Sequences, FiniteSets, TLC

VARIABLES
    session_state,  \* st.session_state: a function from the keys present to their values
    page,           \* the page script that ran last
    notice,         \* what the last run of a page reported (st.error / st.success)
    input,          \* the arguments of the engine function under check
    output          \* what the engine function returned or raised

vars == <<session_state, page, notice, input, output>>

-----------------------------------------------------------------------------
(* Bounds of the model *)

\* dates are 1..MaxDate in the tables handed to the join
MaxDate == 3
\* the longest table handed to the join
MaxJoinRows == 3
\* the longest table handed to the score computation
MaxRows == 2
\* the longest table handed to the correlation
MaxCorrRows == 3
\* the longest of the tables of any rows handed to the anomaly detection
MaxShortRows == 4
\* the longest run of days handed to the overwork scan
MaxOverworkRows == 7
\* the longest of the tables of more than 7 rows handed to the anomaly detection
MaxLongRows == 8
\* the longest table handed to the mood trend rule
MaxTrendRows == 8

\* the rows of a table given to generate_insights
MaxInsightRows == 3

\* the rows of the tables the engine is called on again and again, and the
\* calls made on them
MaxRepeatRows == 2

MaxCalls == 3

\* the longest table handed to the score computation where the two scores
\* are compared with their blend
MaxBlendRows == 2

-----------------------------------------------------------------------------
(* Floating-point values as exact rationals, plus NaN *)

Abs(i) == IF i < 0 THEN -i ELSE i

RECURSIVE Gcd(_, _)
Gcd(a, b) == IF b = 0 THEN a ELSE Gcd(b, a % b)

NaN == [n |-> 0, d |-> 0]

IsNaN(x) == x.d = 0

\* the rational num/den, den # 0, in lowest terms
Rat(num, den) ==
    LET s == IF den < 0 THEN -1 ELSE 1
        g == Gcd(Abs(num), Abs(den))
    IN  [n |-> (s * num) \div g, d |-> (s * den) \div g]

R(i) == [n |-> i, d |-> 1]

FAdd(x, y) == IF IsNaN(x) \/ IsNaN(y) THEN NaN ELSE Rat(x.n * y.d + y.n * x.d, x.d * y.d)

FSub(x, y) == IF IsNaN(x) \/ IsNaN(y) THEN NaN ELSE Rat(x.n * y.d - y.n * x.d, x.d * y.d)

FMul(x, y) == IF IsNaN(x) \/ IsNaN(y) THEN NaN ELSE Rat(x.n * y.n, x.d * y.d)

\* the code divides by the non-zero literals 8, 10, 100 and 2 only; 0/0 is NaN
FDiv(x, y) == IF IsNaN(x) \/ IsNaN(y) \/ y.n = 0 THEN NaN ELSE Rat(x.n * y.d, x.d * y.n)

FAbs(x) == IF IsNaN(x) THEN NaN ELSE [n |-> Abs(x.n), d |-> x.d]

\* x < y and x > y; false when either side is NaN
FLess(x, y) == ~IsNaN(x) /\ ~IsNaN(y) /\ x.n * y.d < y.n * x.d

FGreater(x, y) == FLess(y, x)

FLeq(x, y) == ~IsNaN(x) /\ ~IsNaN(y) /\ x.n * y.d <= y.n * x.d

\* Python's builtin min(a, b): a, unless b < a
PyMin(a, b) == IF FLess(b, a) THEN b ELSE a

RECURSIVE Pow10(_)
Pow10(k) == IF k = 0 THEN 1 ELSE 10 * Pow10(k - 1)

\* the integer nearest to num/den (den > 0), a tie going to the even one
RoundHalfEven(num, den) ==
    LET q == num \div den
        r == num % den
    IN  IF 2 * r < den THEN q
        ELSE IF 2 * r > den THEN q + 1
        ELSE IF q % 2 = 0 THEN q ELSE q + 1

\* round(x, ndigits) of a numpy.float64: NaN stays NaN
Round(x, ndigits) ==
    IF IsNaN(x) THEN NaN
    ELSE Rat(RoundHalfEven(x.n * Pow10(ndigits), x.d), Pow10(ndigits))

-----------------------------------------------------------------------------
(* binary64: a positive double is the 53 binary digits of its significand, *)
(* the leading digit (a 1) first, and the exponent of that leading digit   *)

Double(digits, exponent) == [m |-> digits, e |-> exponent]

\* k zeros (none for k <= 0)
Zeros(k) == [i \in 1..(IF k > 0 THEN k ELSE 0) |-> 0]

RECURSIVE IntBits(_)
\* the binary digits of the integer c >= 1, the leading one first
IntBits(c) == IF c <= 1 THEN <<c>> ELSE Append(IntBits(c \div 2), c % 2)

\* b without the zeros that lead it
DropZeros(b) ==
    LET ones == {i \in 1..Len(b) : b[i] = 1}
    IN  IF ones = {} THEN <<>>
        ELSE SubSeq(b, CHOOSE i \in ones : \A j \in ones : i <= j, Len(b))

\* the digits of b + 1: one digit longer than b when b is all ones
Increment(b) ==
    IF \A i \in 1..Len(b) : b[i] = 1 THEN <<1>> \o Zeros(Len(b))
    ELSE [i \in 1..Len(b) |->
            IF \A j \in (i + 1)..Len(b) : b[j] = 1 THEN 1 - b[i] ELSE b[i]]

\* the double nearest to the number with digits b (a leading 1 of exponent e
\* first) plus, when sticky, something below its last digit; ties to even
RoundToDouble(b, e, sticky) ==
    LET full == b \o Zeros(54 - Len(b))
        kept == SubSeq(full, 1, 53)
        rest == sticky \/ \E i \in 55..Len(full) : full[i] = 1
        up == full[54] = 1 /\ (rest \/ kept[53] = 1)
        r == IF up THEN Increment(kept) ELSE kept
    IN  IF Len(r) = 54 THEN Double(SubSeq(r, 1, 53), e + 1) ELSE Double(r, e)

\* the double of the integer c >= 1 (exact)
FloatOfInt(c) == RoundToDouble(IntBits(c), Len(IntBits(c)) - 1, FALSE)

RECURSIVE LongDivision(_, _, _, _, _)
\* long division by n along the digits b[lo], ..., b[hi], rem being what the
\* digits before them left: <<the digits of the quotient, the remainder>>;
\* a digit of the quotient is 1 when the remainder so far, with the digit of
\* b brought down, holds n.  The upper half of the digits goes first
LongDivision(b, lo, hi, n, rem) ==
    IF lo > hi THEN <<<<>>, rem>>
    ELSE IF lo = hi
    THEN LET r == 2 * rem + b[lo]
         IN  IF r >= n THEN <<<<1>>, r - n>> ELSE <<<<0>>, r>>
    ELSE LET mid == (lo + hi) \div 2
             upper == LongDivision(b, lo, mid, n, rem)
             lower == LongDivision(b, mid + 1, hi, n, upper[2])
         IN  <<upper[1] \o lower[1], lower[2]>>

\* a / n in binary64, n an integer from 1 to 100: the exact quotient, rounded
FloatDivide(a, n) ==
    LET d == a.m \o Zeros(8)
        qr == LongDivision(d, 1, Len(d), n, 0)
        q == DropZeros(qr[1])
    IN  RoundToDouble(q, a.e - (Len(qr[1]) - Len(q)), qr[2] # 0)

RECURSIVE AddDigits(_, _, _, _, _)
\* the digits lo to hi of a + b, for a and b of one length, carry being what
\* the digits after them carry over: <<the digits, the carry out of them>>.
\* The lower half of the digits is added first and hands its carry, 0 or 1,
\* to the upper half
AddDigits(a, b, lo, hi, carry) ==
    IF lo > hi THEN <<<<>>, carry>>
    ELSE IF lo = hi
    THEN LET t == a[lo] + b[lo] + carry
         IN  <<<<t % 2>>, t \div 2>>
    ELSE LET mid == (lo + hi) \div 2
             lower == AddDigits(a, b, mid + 1, hi, carry)
             upper == IF lower[2] = 1 THEN AddDigits(a, b, lo, mid, 1)
                      ELSE AddDigits(a, b, lo, mid, 0)
         IN  <<upper[1] \o lower[1], upper[2]>>

\* a + b in binary64: the exact sum, rounded
FloatAdd(a, b) ==
    LET hi == IF a.e >= b.e THEN a ELSE b
        lo == IF a.e >= b.e THEN b ELSE a
        sh == hi.e - lo.e
        x == <<0>> \o hi.m \o Zeros(sh)
        y == <<0>> \o Zeros(sh) \o lo.m
        sum == AddDigits(x, y, 1, Len(x), 0)[1]
        s == DropZeros(sum)
    IN  RoundToDouble(s, hi.e + 1 - (Len(sum) - Len(s)), FALSE)

RECURSIVE FloatSum(_)
\* the sum of a non-empty series of fewer than 8 doubles, as numpy's
\* add.reduce accumulates it: from the first to the last
FloatSum(ds) ==
    IF Len(ds) = 1 THEN ds[1]
    ELSE FloatAdd(FloatSum(SubSeq(ds, 1, Len(ds) - 1)), ds[Len(ds)])

\* numpy's mean: the sum divided by the count
FloatMean(ds) == FloatDivide(FloatSum(ds), Len(ds))

\* the double of a cell of c >= 1 tenths: the parser's c / 10
FloatOfTenths(c) == FloatDivide(FloatOfInt(c), 10)

\* a > b for two positive doubles: the exponents decide, then the first
\* digit at which the significands differ
FloatGreater(a, b) ==
    \/ a.e > b.e
    \/ /\ a.e = b.e
       /\ \E i \in 1..53 : a.m[i] > b.m[i] /\ \A j \in 1..(i - 1) : a.m[j] = b.m[j]

-----------------------------------------------------------------------------
(* Tables (pandas DataFrames): the columns, and the rows in order *)

WorkColumns == <<"date", "work_hours", "tasks_completed">>

MoodColumns == <<"date", "mood_score", "stress_level", "sleep_hours">>

\* the columns of the files, in the files' usual order
AllColumns ==
    <<"date", "work_hours", "tasks_completed", "server_uptime",
      "mood_score", "stress_level", "sleep_hours">>

Range(s) == {s[i] : i \in 1..Len(s)}

DataFrame(cols, rws) == [tag |-> "DataFrame", columns |-> cols, rows |-> rws]

\* a row of work data: the day, the work hours in tenths, the tasks
WorkRow(d, h, t) == [date |-> d, work_hours |-> h, tasks_completed |-> t]

MoodRow(d, m, s, l) == [date |-> d, mood_score |-> m, stress_level |-> s, sleep_hours |-> l]

\* df[name] = ...: the column is added to the table df itself, after the
\* others, or overwritten when it is there; cells are the cells of the rows
AssignColumn(df, name, cells) ==
    DataFrame(IF name \in Range(df.columns) THEN df.columns ELSE Append(df.columns, name),
              [i \in 1..Len(df.rows) |->
                  [f \in DOMAIN df.rows[i] \cup {name} |->
                      IF f = name THEN cells[i] ELSE df.rows[i][f]]])

\* df[name]: one column as the sequence of its cells
Column(df, name) == [i \in 1..Len(df.rows) |-> df.rows[i][name]]

RECURSIVE SumSeq(_)
SumSeq(s) == IF Len(s) = 0 THEN 0 ELSE Head(s) + SumSeq(Tail(s))

\* Series.mean(): NaN for an empty series
Mean(s) == IF Len(s) = 0 THEN NaN ELSE Rat(SumSeq(s), Len(s))

\* the mean of a series of work_hours cells, in hours
MeanHours(s) == FDiv(Mean(s), R(10))

RECURSIVE SelectRows(_, _)
\* the rows of rws whose date is d, in order
SelectRows(rws, d) ==
    IF Len(rws) = 0 THEN <<>>
    ELSE IF Head(rws).date = d THEN <<Head(rws)>> \o SelectRows(Tail(rws), d)
    ELSE SelectRows(Tail(rws), d)

\* one joined row: the cells of a work row and of the wellbeing row of the same date
JoinRow(w, m) == [c \in (DOMAIN w) \cup (DOMAIN m) |-> IF c \in DOMAIN w THEN w[c] ELSE m[c]]

RECURSIVE JoinOne(_, _)
JoinOne(w, matches) ==
    IF Len(matches) = 0 THEN <<>>
    ELSE <<JoinRow(w, Head(matches))>> \o JoinOne(w, Tail(matches))

\* a join that pairs the rows by position, not by date
PositionalJoinRows(lrows, rrows) ==
    [i \in 1..(IF Len(lrows) < Len(rrows) THEN Len(lrows) ELSE Len(rrows)) |->
        JoinRow(lrows[i], rrows[i])]

RECURSIVE InnerJoinRows(_, _)
\* the rows of an inner join on date with sort=False: the order of the left keys
InnerJoinRows(lrows, rrows) ==
    IF Len(lrows) = 0 THEN <<>>
    ELSE JoinOne(Head(lrows), SelectRows(rrows, Head(lrows).date))
         \o InnerJoinRows(Tail(lrows), rrows)

\* pd.merge(work_df, mood_df, on='date', how='inner')
Merge(work_df, mood_df) ==
    DataFrame(work_df.columns \o SelectSeq(mood_df.columns, LAMBDA c : c # "date"),
              InnerJoinRows(work_df.rows, mood_df.rows))

-----------------------------------------------------------------------------
(* Series.corr: Pearson's r, rounded as the code reports it *)

SumProd(s, t) == SumSeq([i \in 1..Len(s) |-> s[i] * t[i]])

\* n times the sum of the products of the deviations from the means
Dev(s, t) == Len(s) * SumProd(s, t) - SumSeq(s) * SumSeq(t)

RECURSIVE Digits(_, _, _, _)
\* <<floor(acc * 10^k + rem * 10^k / den), the remainder left>>: long division
Digits(rem, den, k, acc) ==
    IF k = 0 THEN <<acc, rem>>
    ELSE Digits((rem * 10) % den, den, k - 1, acc * 10 + (rem * 10) \div den)

\* round(|r|, 2) in hundredths, for r * r = sq, 0 <= sq <= 1: the k with
\* (2k-1)/200 <= |r| <= (2k+1)/200, the even one of the two at a tie
RoundRoot(sq) ==
    LET qr == Digits(sq.n, sq.d, 6, 0)
        AtLeast(t) == t <= 0 \/ qr[1] >= 25 * t * t
        AtMost(t) == qr[1] < 25 * t * t \/ (qr[1] = 25 * t * t /\ qr[2] = 0)
        InBand(k) == AtLeast(2 * k - 1) /\ AtMost(2 * k + 1)
    IN  CHOOSE k \in 0..100 :
            InBand(k) /\ \A j \in 0..100 : (InBand(j) /\ j # k) => k % 2 = 0

\* whether a series of len cells of c tenths each has the deviations 0.0 from
\* its mean in binary64: numpy subtracts the mean it computed, sum / len
ZeroDeviations(c, len) ==
    c = 0 \/ LET x == FloatOfTenths(c)
             IN  FloatMean([i \in 1..len |-> x]) = x

\* round(xs.corr(ys), 2), xs a series of work_hours cells and ys one of integer
\* cells.  Series.corr is NaN for an empty series; numpy's corrcoef divides
\* the covariance by n - 1 (0/0 = NaN for one row) and by the two standard
\* deviations, computed from the deviations from the mean in binary64: 0/0 =
\* NaN when the deviations of a series are all 0.0.  Those of a constant
\* series of integers are; those of a constant series of decimals are all
\* the rounding error of its mean, and where that is not 0.0 the quotient is
\* a number of the order of 1e-16, which rounds to 0.0 (of either sign)
RoundedCorr(xs, ys) ==
    IF Len(xs) <= 1 THEN NaN
    ELSE IF Dev(ys, ys) = 0 THEN NaN
    ELSE IF Dev(xs, xs) = 0
    THEN IF ZeroDeviations(xs[1], Len(xs)) THEN NaN ELSE R(0)
    ELSE LET sxy == Dev(xs, ys)
             sq == FMul(Rat(sxy, Dev(xs, xs)), Rat(sxy, Dev(ys, ys)))
             k == RoundRoot(sq)
         IN  Rat(IF sxy < 0 THEN -k ELSE k, 100)

-----------------------------------------------------------------------------
(* calculate_rhythm_score *)

\* a machine score without the cap
UncappedMachineScore(merged_df) ==
    LET avg_work_hours == MeanHours(Column(merged_df, "work_hours"))
        avg_tasks == Mean(Column(merged_df, "tasks_completed"))
    IN  FAdd(FMul(FDiv(avg_work_hours, R(8)), R(50)),
             FMul(FDiv(avg_tasks, R(10)), R(50)))

\* min(100, avg_work_hours / 8 * 50 + avg_tasks / 10 * 50)
MachineScore(merged_df) ==
    LET avg_work_hours == MeanHours(Column(merged_df, "work_hours"))
        avg_tasks == Mean(Column(merged_df, "tasks_completed"))
    IN  PyMin(R(100), FAdd(FMul(FDiv(avg_work_hours, R(8)), R(50)),
                           FMul(FDiv(avg_tasks, R(10)), R(50))))

\* a human score clamped to 100, as the machine score is
CappedHumanScore(merged_df) ==
    LET avg_mood == Mean(Column(merged_df, "mood_score"))
        avg_stress == Mean(Column(merged_df, "stress_level"))
        avg_sleep == Mean(Column(merged_df, "sleep_hours"))
    IN  PyMin(R(100), FAdd(FAdd(FMul(FDiv(avg_mood, R(10)), R(40)),
                                FMul(FDiv(FSub(R(10), avg_stress), R(10)), R(30))),
                           FMul(FDiv(avg_sleep, R(8)), R(30))))

\* avg_mood / 10 * 40 + (10 - avg_stress) / 10 * 30 + avg_sleep / 8 * 30
HumanScore(merged_df) ==
    LET avg_mood == Mean(Column(merged_df, "mood_score"))
        avg_stress == Mean(Column(merged_df, "stress_level"))
        avg_sleep == Mean(Column(merged_df, "sleep_hours"))
    IN  FAdd(FAdd(FMul(FDiv(avg_mood, R(10)), R(40)),
                  FMul(FDiv(FSub(R(10), avg_stress), R(10)), R(30))),
             FMul(FDiv(avg_sleep, R(8)), R(30)))

\* a penalty cut off at 20 points
CappedBalancePenalty(machine_score, human_score) ==
    PyMin(R(20), FMul(FDiv(FAbs(FSub(machine_score, human_score)), R(100)), R(20)))

\* imbalance = abs(machine_score - human_score); (imbalance / 100) * 20
BalancePenalty(machine_score, human_score) ==
    FMul(FDiv(FAbs(FSub(machine_score, human_score)), R(100)), R(20))

\* a rhythm score that is the mean of the two scores, with no penalty
UnpenalisedRhythmScore(machine_score, human_score) ==
    FDiv(FAdd(machine_score, human_score), R(2))

\* (machine_score + human_score) / 2 - balance_penalty
RhythmScore(machine_score, human_score) ==
    FSub(FDiv(FAdd(machine_score, human_score), R(2)),
         BalancePenalty(machine_score, human_score))

\* a result whose rhythm score is computed from the two rounded scores
RoundFirstRhythmScore(work_df, mood_df) ==
    LET merged_df == Merge(work_df, mood_df)
        machine_score == Round(MachineScore(merged_df), 1)
        human_score == Round(HumanScore(merged_df), 1)
    IN  [tag |-> "result",
         rhythm_score |-> Round(RhythmScore(machine_score, human_score), 1),
         machine_score |-> machine_score,
         human_score |-> human_score,
         avg_work_hours |-> Round(MeanHours(Column(merged_df, "work_hours")), 1),
         avg_mood |-> Round(Mean(Column(merged_df, "mood_score")), 1),
         avg_stress |-> Round(Mean(Column(merged_df, "stress_level")), 1),
         avg_sleep |-> Round(Mean(Column(merged_df, "sleep_hours")), 1),
         correlation |-> RoundedCorr(Column(merged_df, "work_hours"),
                                     Column(merged_df, "mood_score")),
         merged_data |-> merged_df]

calculate_rhythm_score(work_df, mood_df) ==
    LET merged_df == Merge(work_df, mood_df)
        machine_score == MachineScore(merged_df)
        human_score == HumanScore(merged_df)
    IN  [tag |-> "result",
         rhythm_score |-> Round(RhythmScore(machine_score, human_score), 1),
         machine_score |-> Round(machine_score, 1),
         human_score |-> Round(human_score, 1),
         avg_work_hours |-> Round(MeanHours(Column(merged_df, "work_hours")), 1),
         avg_mood |-> Round(Mean(Column(merged_df, "mood_score")), 1),
         avg_stress |-> Round(Mean(Column(merged_df, "stress_level")), 1),
         avg_sleep |-> Round(Mean(Column(merged_df, "sleep_hours")), 1),
         correlation |-> RoundedCorr(Column(merged_df, "work_hours"),
                                     Column(merged_df, "mood_score")),
         merged_data |-> merged_df]

-----------------------------------------------------------------------------
(* detect_anomalies *)

\* an entry of the list: type, title, and the description as the number
\* formatted into it and the text around the number
Anomaly(type, title, value, text) ==
    [type |-> type, title |-> title, description |-> [value |-> value, text |-> text]]

\* burnout days counted from 10 hours and from mood 5 on
InclusiveBurnoutDays(merged_df) ==
    SelectSeq(merged_df.rows, LAMBDA r : r.work_hours >= 10 * 10 /\ r.mood_score <= 5)

\* merged_df[(merged_df['work_hours'] > 10) & (merged_df['mood_score'] < 5)]
burnout_days(merged_df) ==
    SelectSeq(merged_df.rows, LAMBDA r : r.work_hours > 10 * 10 /\ r.mood_score < 5)

\* merged_df[merged_df['sleep_hours'] < 6]
sleep_deficit(merged_df) == SelectSeq(merged_df.rows, LAMBDA r : r.sleep_hours < 6)

\* Series.mean() of an integer column whose sum is at least 1, in binary64:
\* the sum (exact) divided by the count
FloatMeanOfInts(s) == FloatDivide(FloatOfInt(SumSeq(s)), Len(s))

\* merged_df.head(7) and merged_df.tail(7)
DfHead(merged_df, k) ==
    DataFrame(merged_df.columns,
              SubSeq(merged_df.rows, 1, IF Len(merged_df.rows) < k THEN Len(merged_df.rows) ELSE k))

DfTail(merged_df, k) ==
    DataFrame(merged_df.columns,
              SubSeq(merged_df.rows,
                     IF Len(merged_df.rows) < k THEN 1 ELSE Len(merged_df.rows) - k + 1,
                     Len(merged_df.rows)))

\* len(merged_df) > 7 and recent_mood > earlier_mood + 1, the two means and
\* the sum earlier_mood + 1 in binary64
PositiveTrend(merged_df) ==
    /\ Len(merged_df.rows) > 7
    /\ FloatGreater(FloatMeanOfInts(Column(DfTail(merged_df, 7), "mood_score")),
                    FloatAdd(FloatMeanOfInts(Column(DfHead(merged_df, 7), "mood_score")),
                             FloatOfInt(1)))

\* round(recent_mood - earlier_mood, 1)
MoodImprovement(merged_df) ==
    Round(FSub(Mean(Column(DfTail(merged_df, 7), "mood_score")),
               Mean(Column(DfHead(merged_df, 7), "mood_score"))), 1)

\* a count of the overwork days that a shorter day does not reset
OverworkDays(merged_df) ==
    Len(SelectSeq(Column(merged_df, "work_hours"), LAMBDA h : h > 9 * 10))

RECURSIVE OverworkScan(_, _, _)
\* the loop over merged_df['work_hours']: max_consecutive after the cells hours
OverworkScan(hours, consecutive_overwork, max_consecutive) ==
    IF Len(hours) = 0 THEN max_consecutive
    ELSE IF Head(hours) > 9 * 10
    THEN OverworkScan(Tail(hours), consecutive_overwork + 1,
                      IF consecutive_overwork + 1 > max_consecutive
                      THEN consecutive_overwork + 1 ELSE max_consecutive)
    ELSE OverworkScan(Tail(hours), 0, max_consecutive)

max_consecutive(merged_df) == OverworkScan(Column(merged_df, "work_hours"), 0, 0)


BurnoutAnomaly(merged_df) ==
    IF Len(burnout_days(merged_df)) > 0
    THEN <<Anomaly("danger", "Burnout Risk Detected", R(Len(burnout_days(merged_df))),
                   " days with 10+ work hours and mood below 5")>>
    ELSE <<>>

\* a sleep rule that fires from 3 short nights on
SleepAnomalyFromThree(merged_df) ==
    IF Len(sleep_deficit(merged_df)) >= 3
    THEN <<Anomaly("warning", "Sleep Deficit Pattern", R(Len(sleep_deficit(merged_df))),
                   " days with less than 6 hours of sleep")>>
    ELSE <<>>

SleepAnomaly(merged_df) ==
    IF Len(sleep_deficit(merged_df)) > 3
    THEN <<Anomaly("warning", "Sleep Deficit Pattern", R(Len(sleep_deficit(merged_df))),
                   " days with less than 6 hours of sleep")>>
    ELSE <<>>

TrendAnomaly(merged_df) ==
    IF PositiveTrend(merged_df)
    THEN <<Anomaly("success", "Positive Mood Trend", MoodImprovement(merged_df),
                   "Mood improved by points")>>
    ELSE <<>>

\* an overwork rule that fires from 2 days in a row on
OverworkAnomalyFromTwo(merged_df) ==
    IF max_consecutive(merged_df) >= 2
    THEN <<Anomaly("warning", "Extended Overwork Period", R(max_consecutive(merged_df)),
                   " consecutive days with 9+ work hours")>>
    ELSE <<>>

OverworkAnomaly(merged_df) ==
    IF max_consecutive(merged_df) >= 3
    THEN <<Anomaly("warning", "Extended Overwork Period", R(max_consecutive(merged_df)),
                   " consecutive days with 9+ work hours")>>
    ELSE <<>>

\* a detection that stops at the first rule that fires
FirstAnomalyOnly(merged_df) ==
    IF BurnoutAnomaly(merged_df) # <<>> THEN BurnoutAnomaly(merged_df)
    ELSE IF SleepAnomaly(merged_df) # <<>> THEN SleepAnomaly(merged_df)
    ELSE IF TrendAnomaly(merged_df) # <<>> THEN TrendAnomaly(merged_df)
    ELSE OverworkAnomaly(merged_df)

\* the four rules in the order of the code, each appending to the list
detect_anomalies(merged_df) ==
    BurnoutAnomaly(merged_df) \o SleepAnomaly(merged_df)
        \o TrendAnomaly(merged_df) \o OverworkAnomaly(merged_df)

-----------------------------------------------------------------------------
(* generate_insights *)

\* an entry of the list, with the numbers and the category its description
\* is formatted from (icon and recommendation are fixed texts)
Insight(title, color, category, value) ==
    [title |-> title, color |-> color, category |-> category, value |-> value]

Raised(error) == [tag |-> "raised", error |-> error]

\* pd.cut(work_hours, bins=[0, 7, 9, 24], labels=['Low', 'Optimal', 'High']):
\* the intervals are open on the left and closed on the right, and a cell in
\* none of them gets the missing category
hour_category(h) ==
    IF 0 < h /\ h <= 7 * 10 THEN "Low"
    ELSE IF 7 * 10 < h /\ h <= 9 * 10 THEN "Optimal"
    ELSE IF 9 * 10 < h /\ h <= 24 * 10 THEN "High"
    ELSE "nan"

\* the labels in the order of the categorical
Labels == <<"Low", "Optimal", "High">>

\* a categorisation in place that also drops the rows without a category
CategorisedRowsOnly(merged_df) ==
    LET kept == SelectSeq(merged_df.rows, LAMBDA r : hour_category(r.work_hours) # "nan")
    IN  DataFrame(IF "hour_category" \in Range(merged_df.columns) THEN merged_df.columns
                  ELSE Append(merged_df.columns, "hour_category"),
                  [i \in 1..Len(kept) |->
                      [f \in DOMAIN kept[i] \cup {"hour_category"} |->
                          IF f = "hour_category" THEN hour_category(kept[i].work_hours)
                          ELSE kept[i][f]]])

\* merged_df['hour_category'] = pd.cut(...), on the table of the result itself
WithHourCategory(merged_df) ==
    AssignColumn(merged_df, "hour_category",
                 [i \in 1..Len(merged_df.rows) |-> hour_category(merged_df.rows[i].work_hours)])

\* merged_df.groupby('hour_category')['mood_score'].mean(), for one label:
\* NaN for a category without rows
mood_by_hours(merged_df, label) ==
    Mean(Column(DataFrame(merged_df.columns,
                          SelectSeq(merged_df.rows,
                                    LAMBDA r : hour_category(r.work_hours) = label)),
                "mood_score"))

\* mood_by_hours.idxmax(): the first label, in the order of the categorical,
\* whose mean is the largest of the means that are numbers
best_category(merged_df) ==
    LET best(k) == /\ ~IsNaN(mood_by_hours(merged_df, Labels[k]))
                   /\ \A j \in 1..3 : ~FLess(mood_by_hours(merged_df, Labels[k]),
                                            mood_by_hours(merged_df, Labels[j]))
    IN  Labels[CHOOSE k \in 1..3 : best(k) /\ \A j \in 1..(k - 1) : ~best(j)]

\* no row is in a category: every mean is NaN
NoCategory(merged_df) == \A k \in 1..3 : IsNaN(mood_by_hours(merged_df, Labels[k]))

\* the first insight; mood_by_hours.max() is formatted with one decimal
\* (exact for fewer than 20 rows in a category).  Without a row in any
\* category idxmax has no label to give: pandas up to 2.x returns NaN
PeakInsight(merged_df) ==
    IF NoCategory(merged_df)
    THEN <<Insight("Peak Productivity Pattern", "machine", "nan", NaN)>>
    ELSE <<Insight("Peak Productivity Pattern", "machine", best_category(merged_df),
                   Round(mood_by_hours(merged_df, best_category(merged_df)), 1))>>

\* if correlation < -0.3: ... elif correlation > 0.3: ...; correlation is
\* round(r, 2), a number of hundredths or NaN
LinkInsight(correlation) ==
    IF FLess(correlation, Rat(-3, 10))
    THEN <<Insight("Negative Work-Wellbeing Link", "human", "", correlation)>>
    ELSE IF FGreater(correlation, Rat(3, 10))
    THEN <<Insight("Positive Work-Wellbeing Link", "balance", "", correlation)>>
    ELSE <<>>

\* the tests the call makes on correlation, in the order it makes them
CorrelationTests(correlation) ==
    IF FLess(correlation, Rat(-3, 10)) THEN <<"correlation < -0.3">>
    ELSE <<"correlation < -0.3", "correlation > 0.3">>

\* sleep_mood_corr > 0.4 for the unrounded r of sleep_hours and mood_score:
\* r is NaN for fewer than 2 rows or a constant column, else r > 0.4 iff the
\* covariance is positive and 25 * cov^2 > 4 * var * var.  At r = 0.4 exactly
\* the rounding of numpy's quotient decides, and both outcomes are kept
SleepLinkFires(merged_df) ==
    LET xs == Column(merged_df, "sleep_hours")
        ys == Column(merged_df, "mood_score")
        sxy == Dev(xs, ys)
        lhs == 25 * sxy * sxy
        rhs == 4 * Dev(xs, xs) * Dev(ys, ys)
    IN  IF Len(xs) <= 1 \/ Dev(xs, xs) = 0 \/ Dev(ys, ys) = 0 \/ sxy <= 0 THEN {FALSE}
        ELSE IF lhs > rhs THEN {TRUE}
        ELSE IF lhs < rhs THEN {FALSE}
        ELSE {TRUE, FALSE}

\* the third insight, with sleep_mood_corr as formatted with two decimals
SleepInsight(merged_df) ==
    <<Insight("Sleep is Your Superpower", "human", "",
              RoundedCorr([i \in 1..Len(merged_df.rows) |-> 10 * merged_df.rows[i].sleep_hours],
                          Column(merged_df, "mood_score")))>>

\* merged_df[merged_df['mood_score'] >= 7]['work_hours'], sorted
HighMoodHours(merged_df) ==
    SortSeq(Column(DataFrame(merged_df.columns,
                             SelectSeq(merged_df.rows, LAMBDA r : r.mood_score >= 7)),
                   "work_hours"),
            LAMBDA x, y : x < y)

\* whether c / 10 is rounded upward to its double, for c >= 1 not a multiple
\* of 5 (it is rounded downward otherwise)
TenthsRoundedUp(c) ==
    LET d == FloatOfInt(c).m \o Zeros(8)
        qr == LongDivision(d, 1, Len(d), 10, 0)
        q == DropZeros(qr[1])
    IN  /\ q[54] = 1
        /\ \/ qr[2] # 0
           \/ q[53] = 1
           \/ \E i \in 55..Len(q) : q[i] = 1

\* f'{(a + b) / 2:.1f}' for two work_hours cells a <= b, in tenths: the
\* decimal with one digit nearest to the double, a tie going to the even
\* digit.  With a + b odd the exact half sum lies midway between two such
\* decimals, and the side the double fell on decides
FormatHalfSum(a, b) ==
    LET c == a + b
        lo == (c - 1) \div 2
        sum == IF a = 0 THEN FloatOfTenths(b)
               ELSE FloatAdd(FloatOfTenths(a), FloatOfTenths(b))
        mid == FloatOfTenths(c)
    IN  IF c % 2 = 0 THEN c \div 2
        ELSE IF FloatGreater(sum, mid) THEN lo + 1
        ELSE IF FloatGreater(mid, sum) THEN lo
        ELSE IF c % 5 = 0 THEN (IF lo % 2 = 0 THEN lo ELSE lo + 1)
        ELSE IF TenthsRoundedUp(c) THEN lo + 1 ELSE lo

\* a median that is 0 for no cells
ZeroFilledMedian(hours) ==
    LET n == Len(hours)
    IN  IF n = 0 THEN R(0)
        ELSE IF n % 2 = 1 THEN Rat(hours[(n + 1) \div 2], 10)
        ELSE Rat(FormatHalfSum(hours[n \div 2], hours[n \div 2 + 1]), 10)

\* Series.median() of the sorted cells as formatted with one decimal, in
\* hours: NaN for no cells, the middle cell, or half the sum of the two
\* middle cells
optimal_work(hours) ==
    LET n == Len(hours)
    IN  IF n = 0 THEN NaN
        ELSE IF n % 2 = 1 THEN Rat(hours[(n + 1) \div 2], 10)
        ELSE Rat(FormatHalfSum(hours[n \div 2], hours[n \div 2 + 1]), 10)

\* the last insight (the adherence percentage of its recommendation divides
\* by len(merged_df))
SweetSpotInsight(merged_df) ==
    <<Insight("Your Sweet Spot Identified", "balance", "",
              optimal_work(HighMoodHours(merged_df)))>>

\* what a call can give.  On an empty table idxmax raises ValueError (pandas
\* 3) or the adherence raises ZeroDivisionError; without a row in any
\* category idxmax raises ValueError (pandas 3) or gives NaN (before)
generate_insights(analysis_results) ==
    LET merged_df == analysis_results.merged_data
        correlation == analysis_results.correlation
        lists == {PeakInsight(merged_df) \o LinkInsight(correlation)
                    \o (IF sleep THEN SleepInsight(merged_df) ELSE <<>>)
                    \o SweetSpotInsight(merged_df) : sleep \in SleepLinkFires(merged_df)}
        returned == {[tag |-> "insights", list |-> l,
                      tests |-> CorrelationTests(correlation)] : l \in lists}
    IN  IF Len(merged_df.rows) = 0 THEN {Raised("ValueError"), Raised("ZeroDivisionError")}
        ELSE IF NoCategory(merged_df) THEN returned \cup {Raised("ValueError")}
        ELSE returned

-----------------------------------------------------------------------------
(* validate_csv_format *)

\* required_columns: a kind it does not list has no entry
required_columns(data_type) ==
    CASE data_type = "work" -> {"date", "work_hours", "tasks_completed"}
      [] data_type = "mood" -> {"date", "mood_score", "stress_level", "sleep_hours"}

KnownKinds == {"work", "mood"}

\* the message of a failed or passed validation: its fixed text, and the column
\* names joined into it (', '.join over a set: every name once, in no set order)
Message(txt, cols) == [text |-> txt, names |-> cols]

\* a validation that reports the first missing column only
FirstMissingOnly(df, data_type) ==
    IF data_type \notin KnownKinds
    THEN [ok |-> FALSE, message |-> Message("Invalid data type", {})]
    ELSE LET missing_cols == required_columns(data_type) \ Range(df.columns)
             first == CHOOSE c \in missing_cols :
                        \A i \in 1..Len(AllColumns) :
                            AllColumns[i] \in missing_cols =>
                                \E j \in 1..i : AllColumns[j] = c
         IN  IF missing_cols # {}
             THEN [ok |-> FALSE, message |-> Message("Missing columns: ", {first})]
             ELSE [ok |-> TRUE, message |-> Message("Valid format", {})]

\* a validation that takes a kind it does not know for the wellbeing kind
DefaultKindValidation(df, data_type) ==
    LET missing_cols ==
            required_columns(IF data_type \in KnownKinds THEN data_type ELSE "mood")
                \ Range(df.columns)
    IN  IF missing_cols # {}
        THEN [ok |-> FALSE, message |-> Message("Missing columns: ", missing_cols)]
        ELSE [ok |-> TRUE, message |-> Message("Valid format", {})]

validate_csv_format(df, data_type) ==
    IF data_type \notin KnownKinds
    THEN [ok |-> FALSE, message |-> Message("Invalid data type", {})]
    ELSE LET missing_cols == required_columns(data_type) \ Range(df.columns)
         IN  IF missing_cols # {}
             THEN [ok |-> FALSE, message |-> Message("Missing columns: ", missing_cols)]
             ELSE [ok |-> TRUE, message |-> Message("Valid format", {})]

-----------------------------------------------------------------------------
(* The engine functions under check: the arguments are drawn in Init, the   *)
(* one action applies the function                                          *)

NotCalled == [tag |-> "NotCalled"]

NoInput == [tag |-> "NoInput"]

\* the sequences over S of length at most n
SeqsUpTo(S, n) == UNION {[1..k -> S] : k \in 0..n}

\* tables for the join: any dates in any order, repeated dates included; the
\* i-th row records 6 + i work hours (9 - i mood) so that rows stay apart
JoinWorkTables ==
    {DataFrame(WorkColumns, [i \in 1..Len(ds) |-> WorkRow(ds[i], 10 * (6 + i), 10)]) :
        ds \in SeqsUpTo(1..MaxDate, MaxJoinRows)}

JoinMoodTables ==
    {DataFrame(MoodColumns, [i \in 1..Len(ds) |-> MoodRow(ds[i], 9 - i, 3, 8)]) :
        ds \in SeqsUpTo(1..MaxDate, MaxJoinRows)}

\* cells for the score computation: idle and long days; moods,
\* stress levels and sleep from the low to beyond the expected ranges
WorkHoursVals == {0, 120}

TasksVals == {0, 10}

MoodVals == {1, 8}

StressVals == {3, 20}

SleepVals == {5, 24}

\* tables for the score computation: row i is day i
ScoreWorkTables ==
    {DataFrame(WorkColumns, [i \in 1..Len(vs) |-> WorkRow(i, vs[i][1], vs[i][2])]) :
        vs \in SeqsUpTo(WorkHoursVals \X TasksVals, MaxRows)}

ScoreMoodTables ==
    {DataFrame(MoodColumns, [i \in 1..Len(vs) |-> MoodRow(i, vs[i][1], vs[i][2], vs[i][3])]) :
        vs \in SeqsUpTo(MoodVals \X StressVals \X SleepVals, MaxRows)}

NoSession == [k \in {} |-> NotCalled]

EngineInit(WorkTables, MoodTables) ==
    /\ input \in {[tag |-> "calculate_rhythm_score", work_df |-> w, mood_df |-> m] :
                    w \in WorkTables, m \in MoodTables}
    /\ output = NotCalled
    /\ session_state = NoSession
    /\ page = "none"
    /\ notice = {}

Calculate ==
    /\ input.tag = "calculate_rhythm_score"
    /\ output = NotCalled
    /\ output' = calculate_rhythm_score(input.work_df, input.mood_df)
    /\ UNCHANGED <<session_state, page, notice, input>>

InitJoin == EngineInit(JoinWorkTables, JoinMoodTables)

SpecJoin == InitJoin /\ [][Calculate]_vars

InitScore == EngineInit(ScoreWorkTables, ScoreMoodTables)

SpecScore == InitScore /\ [][Calculate]_vars

\* cells for the blend of the two scores: days that score 0, 50, 100 and the
\* capped 125 on the machine side and 0 to 100 on the human side, so that
\* either score can be the smaller one and the two can be equal
BlendWorkVals == {0, 80, 120} \X {0, 10}

BlendMoodVals == {5, 10} \X {5, 0} \X {4, 8}

BlendWorkTables(rows) ==
    {DataFrame(WorkColumns, [i \in 1..Len(vs) |-> WorkRow(i, vs[i][1], vs[i][2])]) :
        vs \in SeqsUpTo(BlendWorkVals, rows)}

BlendMoodTables(rows) ==
    {DataFrame(MoodColumns, [i \in 1..Len(vs) |-> MoodRow(i, vs[i][1], vs[i][2], vs[i][3])]) :
        vs \in SeqsUpTo(BlendMoodVals, rows)}

InitBlend == EngineInit(BlendWorkTables(MaxBlendRows), BlendMoodTables(MaxBlendRows))

SpecBlend == InitBlend /\ [][Calculate]_vars

\* cells for the correlation: days of 7.6 and of 8 work hours, moods 5 and 7
CorrHoursVals == {76, 80}

CorrMoodVals == {5, 7}

\* tables for the correlation: row i is day i
CorrWorkTables ==
    {DataFrame(WorkColumns, [i \in 1..Len(hs) |-> WorkRow(i, hs[i], 10)]) :
        hs \in SeqsUpTo(CorrHoursVals, MaxCorrRows)}

CorrMoodTables ==
    {DataFrame(MoodColumns, [i \in 1..Len(ms) |-> MoodRow(i, ms[i], 3, 8)]) :
        ms \in SeqsUpTo(CorrMoodVals, MaxCorrRows)}

InitCorr == EngineInit(CorrWorkTables, CorrMoodTables)

SpecCorr == InitCorr /\ [][Calculate]_vars

\* a row of a joined table: 10 tasks and stress 3 on every day
JoinedRow(d, h, m, l) == JoinRow(WorkRow(d, h, 10), MoodRow(d, m, 3, l))

\* the joined table of the rows with the cells vs[i] = <<hours, mood, sleep>>
JoinedTable(vs) ==
    DataFrame(WorkColumns \o Tail(MoodColumns),
              [i \in 1..Len(vs) |-> JoinedRow(i, vs[i][1], vs[i][2], vs[i][3])])

\* rows at and around the thresholds of the rules: 9, 10 and 11 work hours;
\* mood 4 with 5 or 6 hours of sleep, mood 5 with 6
ShortKinds == {90, 100, 110} \X {<<4, 5>>, <<5, 6>>, <<4, 6>>}

ShortTables(rows) ==
    {JoinedTable([i \in 1..Len(ks) |-> <<ks[i][1], ks[i][2][1], ks[i][2][2]>>]) :
        ks \in SeqsUpTo(ShortKinds, rows)}

\* runs of days of 8 and of 10 work hours
OverworkTables(rows) ==
    {JoinedTable([i \in 1..Len(hs) |-> <<hs[i], 6, 8>>]) :
        hs \in SeqsUpTo({80, 100}, rows)}

\* tables of 8 rows and more: a first row, a last row, and rows alike between
LongKinds == {80, 110} \X {2, 10} \X {5, 8}

LongTables(rows) ==
    {JoinedTable([i \in 1..n |-> IF i = 1 THEN f ELSE IF i = n THEN l ELSE m]) :
        f \in LongKinds, m \in LongKinds, l \in LongKinds, n \in 8..rows}

\* mood series for the trend rule: 8 hours of work and of sleep on every day
TrendTables(rows) ==
    {JoinedTable([i \in 1..Len(ms) |-> <<80, ms[i], 8>>]) :
        ms \in SeqsUpTo({3, 4, 10}, rows)}

AnomaliesInit(Tables) ==
    /\ input \in {[tag |-> "detect_anomalies", merged_df |-> t] : t \in Tables}
    /\ output = NotCalled
    /\ session_state = NoSession
    /\ page = "none"
    /\ notice = {}

Detect ==
    /\ input.tag = "detect_anomalies"
    /\ output = NotCalled
    /\ output' = [tag |-> "anomalies", list |-> detect_anomalies(input.merged_df)]
    /\ UNCHANGED <<session_state, page, notice, input>>

InitAnomalies ==
    AnomaliesInit(ShortTables(MaxShortRows) \cup OverworkTables(MaxOverworkRows)
                    \cup LongTables(MaxLongRows))

SpecAnomalies == InitAnomalies /\ [][Detect]_vars

InitTrend == AnomaliesInit(TrendTables(MaxTrendRows))

SpecTrend == InitTrend /\ [][Detect]_vars

\* the cells of a day for generate_insights: work hours 0, 7, 9 and 9.1 (no
\* category, Low, Optimal, High) with a mood and a night's sleep
InsightKinds == {0, 70, 90, 91} \X {<<4, 5>>, <<7, 8>>, <<9, 5>>}

\* the results of calculate_rhythm_score on two tables of the same days
InsightResults(rows) ==
    {calculate_rhythm_score(
         DataFrame(WorkColumns, [i \in 1..Len(ks) |-> WorkRow(i, ks[i][1], 10)]),
         DataFrame(MoodColumns, [i \in 1..Len(ks) |-> MoodRow(i, ks[i][2][1], 3, ks[i][2][2])])) :
        ks \in SeqsUpTo(InsightKinds, rows)}

InitInsights ==
    /\ input \in {[tag |-> "generate_insights", analysis_results |-> r] :
            r \in InsightResults(MaxInsightRows)}
    /\ output = NotCalled
    /\ session_state = NoSession
    /\ page = "none"
    /\ notice = {}

\* one call generate_insights(analysis_results): the hour_category column is
\* assigned to the table of the argument before anything can raise
Generate ==
    /\ input.tag = "generate_insights"
    /\ output = NotCalled
    /\ output' \in generate_insights(input.analysis_results)
    /\ input' = [input EXCEPT !.analysis_results.merged_data = WithHourCategory(@)]
    /\ UNCHANGED <<session_state, page, notice>>

SpecInsights == InitInsights /\ [][Generate]_vars

\* tables for the validation: every choice of columns
ColumnChoices == {SelectSeq(AllColumns, LAMBDA c : c \in S) : S \in SUBSET Range(AllColumns)}

\* the kinds handed to the validation: the two of the code, the spec's name
\* for the second, and others
KindChoices == {"work", "mood", "wellbeing", "sleep", ""}

InitValidate ==
    /\ input \in {[tag |-> "validate_csv_format", df |-> DataFrame(cols, <<>>), data_type |-> k] :
                    cols \in ColumnChoices, k \in KindChoices}
    /\ output = NotCalled
    /\ session_state = NoSession
    /\ page = "none"
    /\ notice = {}

Validate ==
    /\ input.tag = "validate_csv_format"
    /\ output = NotCalled
    /\ output' = [tag |-> "validation"] @@ validate_csv_format(input.df, input.data_type)
    /\ UNCHANGED <<session_state, page, notice, input>>

SpecValidate == InitValidate /\ [][Validate]_vars

-----------------------------------------------------------------------------
(* The Streamlit session: st.session_state and the page scripts that run on *)
(* it.  A page may be opened at any time (sidebar, URL); a widget can be    *)
(* used only on the page whose last run drew it.                            *)

\* the days generate_sample_data generates (the code: 30)
SampleDays == 2

None == [tag |-> "None"]

PyBool(b) == [tag |-> "bool", v |-> b]

\* not x, for the values the flag takes: None and False are falsy
PyNot(x) == ~(x.tag = "bool" /\ x.v)

Has(s, key) == key \in DOMAIN s

SetKey(s, key, val) == [k \in DOMAIN s \cup {key} |-> IF k = key THEN val ELSE s[k]]

\* if key not in st.session_state: st.session_state[key] = val
SetDefault(s, key, val) == IF Has(s, key) THEN s ELSE SetKey(s, key, val)

\* an uploaded file: readable as CSV (with the table read) or not
CsvFile(df) == [tag |-> "file", readable |-> TRUE, df |-> df]

Unreadable == [tag |-> "file", readable |-> FALSE, df |-> DataFrame(<<>>, <<>>)]

NoFile == [tag |-> "nofile"]

\* the files a user uploads as work data: two days, of 8 and of 12 hours; one
\* day that no wellbeing file covers; a table without tasks_completed; a file
\* pandas cannot read
WorkFiles ==
    {CsvFile(DataFrame(WorkColumns, <<WorkRow(1, 80, 10), WorkRow(2, 120, 15)>>)),
     CsvFile(DataFrame(WorkColumns, <<WorkRow(3, 120, 2)>>)),
     CsvFile(DataFrame(<<"date", "work_hours">>, <<[date |-> 1, work_hours |-> 80]>>)),
     Unreadable}

\* the files a user uploads as wellbeing data: days 1 and 2; an empty table;
\* a table without a date column
MoodFiles ==
    {CsvFile(DataFrame(MoodColumns, <<MoodRow(1, 8, 3, 8), MoodRow(2, 3, 9, 4)>>)),
     CsvFile(DataFrame(MoodColumns, <<>>)),
     CsvFile(DataFrame(<<"mood_score", "stress_level", "sleep_hours">>,
                       <<[mood_score |-> 8, stress_level |-> 3, sleep_hours |-> 8]>>))}

\* generate_sample_data: both tables cover the same days; the drawn numbers
\* are a choice within the ranges the code clips them to (5 to 12 work hours)
SampleWorkRow(d, h) == [date |-> d, work_hours |-> h, tasks_completed |-> 10, server_uptime |-> 99]

SampleData ==
    {<<DataFrame(WorkColumns \o <<"server_uptime">>,
                 [i \in 1..SampleDays |-> SampleWorkRow(i, hs[i])]),
       DataFrame(MoodColumns, [i \in 1..SampleDays |-> MoodRow(i, 7, 4, 7)])>> :
        hs \in [1..SampleDays -> {50, 120}]}

\* a handler that stores the table it has read before it validates it
StoreBeforeValidation(s, file, key, kind) ==
    IF file = NoFile THEN <<s, {}>>
    ELSE IF ~file.readable \/ "date" \notin Range(file.df.columns)
    THEN <<s, {[from |-> key, ok |-> FALSE, message |-> Message("Error reading file", {})]}>>
    ELSE <<SetKey(s, key, file.df), {[from |-> key] @@ validate_csv_format(file.df, kind)}>>

\* one file uploader and its handler (Upload_Data.py, with the work or the
\* wellbeing uploader): <<the session afterwards, the report>>
HandleUpload(s, file, key, kind) ==
    IF file = NoFile THEN <<s, {}>>
    ELSE IF ~file.readable \/ "date" \notin Range(file.df.columns)
    THEN <<s, {[from |-> key, ok |-> FALSE, message |-> Message("Error reading file", {})]}>>
    ELSE LET v == validate_csv_format(file.df, kind)
         IN  IF v.ok THEN <<SetKey(s, key, file.df), {[from |-> key] @@ v}>>
             ELSE <<s, {[from |-> key] @@ v}>>

\* the script of Upload_Data.py down to the Analyze button
UploadScript(s, work_file, mood_file) ==
    LET s1 == SetDefault(SetDefault(SetDefault(s, "work_data", None), "mood_data", None),
                         "analysis_complete", None)
        w == HandleUpload(s1, work_file, "work_data", "work")
        m == HandleUpload(w[1], mood_file, "mood_data", "mood")
    IN  <<m[1], w[2] \cup m[2]>>

AnalyzeShown(s) == s["work_data"] # None /\ s["mood_data"] # None

Init ==
    /\ session_state = NoSession
    /\ page = "none"
    /\ notice = {}
    /\ input = NoInput
    /\ output = NotCalled

\* a switch_page is under way: the page switched to runs next
Switching == page \in {"->Processing", "->Dashboard", "->Upload_Data"}

\* a page opened from the sidebar, or the one a switch_page leads to
Opens(arrow) == ~Switching \/ page = arrow

\* Series.dt.day_name() and Series.dt.isocalendar().week of the dates of a
\* table, day 1 being the Monday of ISO week 1
day_name(df) ==
    [i \in 1..Len(df.rows) |->
        <<"Monday", "Tuesday", "Wednesday", "Thursday", "Friday", "Saturday",
          "Sunday">>[((df.rows[i].date - 1) % 7) + 1]]

isocalendar_week(df) == [i \in 1..Len(df.rows) |-> (df.rows[i].date - 1) \div 7 + 1]

\* app.py: the home page
RunApp ==
    /\ ~Switching
    /\ session_state' =
         SetDefault(SetDefault(SetDefault(SetDefault(session_state,
            "work_data", None), "mood_data", None), "rhythm_score", None),
            "analysis_complete", PyBool(FALSE))
    /\ page' = "app"
    /\ notice' = {}
    /\ UNCHANGED <<input, output>>

\* Upload_Data.py runs with the files now in its two uploaders and no button pressed
RunUpload(work_file, mood_file) ==
    /\ Opens("->Upload_Data")
    /\ (work_file # NoFile \/ mood_file # NoFile) => page = "Upload_Data"
    /\ LET r == UploadScript(session_state, work_file, mood_file)
       IN  /\ session_state' = r[1]
           /\ notice' = r[2]
    /\ page' = "Upload_Data"
    /\ UNCHANGED <<input, output>>

\* an Analyze Rhythm button that leaves analysis_complete as it is
AnalyzeKeepingFlag(work_file, mood_file) ==
    /\ page = "Upload_Data"
    /\ AnalyzeShown(session_state)
    /\ LET r == UploadScript(session_state, work_file, mood_file)
       IN  /\ session_state' = r[1]
           /\ notice' = r[2]
    /\ page' = "->Processing"
    /\ UNCHANGED <<input, output>>

\* Upload_Data.py runs with the Analyze Rhythm button pressed
PressAnalyze(work_file, mood_file) ==
    /\ page = "Upload_Data"
    /\ AnalyzeShown(session_state)
    /\ LET r == UploadScript(session_state, work_file, mood_file)
       IN  /\ session_state' = SetKey(r[1], "analysis_complete", PyBool(FALSE))
           /\ notice' = r[2]
    /\ page' = "->Processing"
    /\ UNCHANGED <<input, output>>

\* Upload_Data.py runs with Load Sample Data pressed, and runs again (st.rerun)
PressLoadSample(work_file, mood_file, sample) ==
    /\ page = "Upload_Data"
    /\ LET r == UploadScript(session_state, work_file, mood_file)
           loaded == SetKey(SetKey(r[1], "work_data", sample[1]), "mood_data", sample[2])
           again == UploadScript(loaded, work_file, mood_file)
       IN  /\ session_state' = again[1]
           /\ notice' = again[2]
    /\ page' = "Upload_Data"
    /\ UNCHANGED <<input, output>>

\* Processing.py: a key the script reads and the session lacks ends the run;
\* after the analysis the script switches to the dashboard
RunProcessing ==
    /\ Opens("->Processing")
    /\ IF ~Has(session_state, "work_data") \/ ~Has(session_state, "mood_data")
       THEN /\ notice' = {[from |-> "Processing", ok |-> FALSE,
                           message |-> Message("AttributeError", {})]}
            /\ UNCHANGED session_state
       ELSE IF session_state["work_data"] = None \/ session_state["mood_data"] = None
       THEN /\ notice' = {[from |-> "Processing", ok |-> FALSE,
                           message |-> Message("No data found", {})]}
            /\ UNCHANGED session_state
       ELSE IF ~Has(session_state, "analysis_complete")
       THEN /\ notice' = {[from |-> "Processing", ok |-> FALSE,
                           message |-> Message("AttributeError", {})]}
            /\ UNCHANGED session_state
       ELSE /\ notice' = {[from |-> "Processing", ok |-> TRUE,
                           message |-> Message("Analysis Complete", {})]}
            /\ IF PyNot(session_state["analysis_complete"])
               THEN session_state' =
                      SetKey(SetKey(session_state, "rhythm_score",
                                    calculate_rhythm_score(session_state["work_data"],
                                                           session_state["mood_data"])),
                             "analysis_complete", PyBool(TRUE))
               ELSE UNCHANGED session_state
    /\ page' = IF /\ Has(session_state, "work_data") /\ Has(session_state, "mood_data")
                  /\ session_state["work_data"] # None /\ session_state["mood_data"] # None
                  /\ Has(session_state, "analysis_complete")
               THEN "->Dashboard" ELSE "Processing"
    /\ UNCHANGED <<input, output>>

\* the correlation card of the Dashboard (its value and its delta) and the
\* AI insight under the chart (its alert class and its message)
CorrelationCard(results) ==
    LET correlation == results.correlation
    IN  [from |-> "Dashboard", ok |-> TRUE,
         value |-> correlation,
         delta |-> IF FGreater(FAbs(correlation), Rat(5, 10)) THEN "Strong" ELSE "Moderate",
         insight_type |-> IF FGreater(correlation, R(0)) THEN "success" ELSE "warning",
         message |-> Message(IF FLess(correlation, Rat(-3, 10))
                             THEN "Strong negative correlation detected"
                             ELSE IF FGreater(correlation, Rat(3, 10))
                             THEN "Positive correlation found"
                             ELSE "Weak correlation between work hours and mood", {})]

\* what a run of Dashboard.py over a non-empty table shows: the correlation
\* card with the insight, and the alerts of detect_anomalies
DashboardShown(results) ==
    {CorrelationCard(results),
     [from |-> "Dashboard", ok |-> TRUE,
      message |-> Message("Active Alerts",
                          {a.title : a \in Range(detect_anomalies(results.merged_data))})]}

\* Dashboard.py: the guard, the header with the first and the last date
\* (NaT.strftime raises on an empty table), the alerts, then the heatmap,
\* which adds two columns to the table of the stored result
RunDashboard ==
    /\ Opens("->Dashboard")
    /\ IF ~Has(session_state, "rhythm_score")
       THEN /\ notice' = {[from |-> "Dashboard", ok |-> FALSE,
                           message |-> Message("AttributeError", {})]}
            /\ UNCHANGED session_state
       ELSE IF session_state["rhythm_score"] = None
       THEN /\ notice' = {[from |-> "Dashboard", ok |-> FALSE,
                           message |-> Message("No analysis results found", {})]}
            /\ UNCHANGED session_state
       ELSE IF Len(session_state["rhythm_score"].merged_data.rows) = 0
       THEN /\ notice' = {[from |-> "Dashboard", ok |-> FALSE,
                           message |-> Message("ValueError", {})]}
            /\ UNCHANGED session_state
       ELSE /\ notice' = DashboardShown(session_state["rhythm_score"])
            /\ session_state' =
                 SetKey(session_state, "rhythm_score",
                        [session_state["rhythm_score"] EXCEPT !.merged_data =
                            AssignColumn(AssignColumn(@, "day_of_week", day_name(@)),
                                         "week", isocalendar_week(@))])
    /\ page' = "Dashboard"
    /\ UNCHANGED <<input, output>>

\* Insights.py: the guard, generate_insights on the stored result (which
\* adds hour_category to its table, and may raise), then the weekly trends,
\* which add the week column
RunInsights ==
    /\ ~Switching
    /\ IF ~Has(session_state, "rhythm_score") \/ session_state["rhythm_score"] = None
       THEN /\ notice' = {[from |-> "Insights", ok |-> FALSE,
                           message |-> Message("No analysis results found", {})]}
            /\ UNCHANGED session_state
       ELSE \E insights \in generate_insights(session_state["rhythm_score"]) :
              LET results == [session_state["rhythm_score"] EXCEPT !.merged_data =
                                 WithHourCategory(@)]
              IN  IF insights.tag = "raised"
                  THEN /\ notice' = {[from |-> "Insights", ok |-> FALSE,
                                      message |-> Message(insights.error, {})]}
                       /\ session_state' = SetKey(session_state, "rhythm_score", results)
                  ELSE /\ notice' = {[from |-> "Insights", ok |-> TRUE,
                                      message |-> Message("AI-Generated Insights",
                                          {i.title : i \in Range(insights.list)})]}
                       /\ session_state' =
                            SetKey(session_state, "rhythm_score",
                                   [results EXCEPT !.merged_data =
                                       AssignColumn(@, "week", isocalendar_week(@))])
    /\ page' = "Insights"
    /\ UNCHANGED <<input, output>>

\* Dashboard.py runs with Export Report pressed.  The button is drawn once
\* the header is (so the last run got that far); the CSV is written from the
\* table as the run finds it, before the heatmap of this run
PressExport ==
    /\ page = "Dashboard"
    /\ \E n \in notice : n.from = "Dashboard" /\ n.ok
    /\ notice' = DashboardShown(session_state["rhythm_score"]) \cup
                  {[from |-> "Dashboard", ok |-> TRUE,
                    message |-> Message("Download CSV", {}),
                    report |-> session_state["rhythm_score"].merged_data]}
    /\ session_state' =
         SetKey(session_state, "rhythm_score",
                [session_state["rhythm_score"] EXCEPT !.merged_data =
                    AssignColumn(AssignColumn(@, "day_of_week", day_name(@)),
                                 "week", isocalendar_week(@))])
    /\ page' = "Dashboard"
    /\ UNCHANGED <<input, output>>

\* report_df = merged_df.copy() with the three scores as columns
report_df(results) ==
    LET n == Len(results.merged_data.rows)
    IN  AssignColumn(
            AssignColumn(
                AssignColumn(results.merged_data, "rhythm_score",
                             [i \in 1..n |-> results.rhythm_score]),
                "machine_score", [i \in 1..n |-> results.machine_score]),
            "human_score", [i \in 1..n |-> results.human_score])

\* Insights.py runs with Download Full Report pressed: the script runs as
\* before (its assignments to the table change nothing the second time) and
\* writes the CSV from a copy of the table
PressDownload ==
    /\ page = "Insights"
    /\ \E n \in notice : n.from = "Insights" /\ n.ok
    /\ notice' = {[from |-> "Insights", ok |-> TRUE,
                   message |-> Message("Download CSV", {}),
                   report |-> report_df(session_state["rhythm_score"])]}
    /\ page' = "Insights"
    /\ UNCHANGED <<session_state, input, output>>

\* a Re-analyze Data button that drops the stored result and leaves the flag
ReanalyzeClearingResult ==
    /\ page = "Insights"
    /\ \E n \in notice : n.from = "Insights" /\ n.ok
    /\ Has(session_state, "rhythm_score")
    /\ session_state' = SetKey(session_state, "rhythm_score", None)
    /\ notice' = notice
    /\ page' = "->Upload_Data"
    /\ UNCHANGED <<input, output>>

\* Insights.py runs with Re-analyze Data pressed: the script runs as before
\* (its assignments to the table change nothing the second time), clears the
\* flag and switches to the upload page
PressReanalyze ==
    /\ page = "Insights"
    /\ \E n \in notice : n.from = "Insights" /\ n.ok
    /\ Has(session_state, "rhythm_score")
    /\ session_state' = SetKey(session_state, "analysis_complete", PyBool(FALSE))
    /\ notice' = notice
    /\ page' = "->Upload_Data"
    /\ UNCHANGED <<input, output>>

\* every run of a page script, by the page and the widget that started it
Next ==
    \/ RunApp
    \/ \E wf \in WorkFiles \cup {NoFile}, mf \in MoodFiles \cup {NoFile} : RunUpload(wf, mf)
    \/ \E wf \in WorkFiles \cup {NoFile}, mf \in MoodFiles \cup {NoFile} : PressAnalyze(wf, mf)
    \/ \E wf \in WorkFiles \cup {NoFile}, mf \in MoodFiles \cup {NoFile}, sd \in SampleData :
          PressLoadSample(wf, mf, sd)
    \/ RunProcessing
    \/ RunDashboard
    \/ RunInsights
    \/ PressReanalyze
    \/ PressExport
    \/ PressDownload

Spec == Init /\ [][Next]_vars

-----------------------------------------------------------------------------
(* The engine called again and again on the same two tables.  What one     *)
(* installation does where pandas versions differ (idxmax without a number) *)
(* or where the last digit of a quotient decides (sleep_mood_corr at 0.4)   *)
(* is fixed for the run: it is drawn with the tables                        *)

\* the cells of a day: 0, 8 and 11 work hours with a mood and a night's sleep
RepeatKinds == {0, 80, 110} \X {<<4, 5>>, <<8, 8>>}

RepeatInputs(rows) ==
    {[tag |-> "engine",
      work_df |-> DataFrame(WorkColumns, [i \in 1..Len(ks) |-> WorkRow(i, ks[i][1], 10)]),
      mood_df |-> DataFrame(MoodColumns,
                            [i \in 1..Len(ks) |-> MoodRow(i, ks[i][2][1], 3, ks[i][2][2])]),
      idxmax_raises |-> raises,
      tie_fires |-> fires] :
        ks \in SeqsUpTo(RepeatKinds, rows), raises \in BOOLEAN, fires \in BOOLEAN}

\* what generate_insights gives on this installation
InsightsHere(analysis_results) ==
    LET merged_df == analysis_results.merged_data
        all == generate_insights(analysis_results)
        sleep == IF Cardinality(SleepLinkFires(merged_df)) = 1
                 THEN CHOOSE b \in SleepLinkFires(merged_df) : TRUE
                 ELSE input.tie_fires
        HasSleep(o) == \E i \in 1..Len(o.list) : o.list[i].title = "Sleep is Your Superpower"
    IN  IF Len(merged_df.rows) = 0
        THEN IF input.idxmax_raises THEN Raised("ValueError") ELSE Raised("ZeroDivisionError")
        ELSE IF NoCategory(merged_df) /\ input.idxmax_raises THEN Raised("ValueError")
        ELSE CHOOSE o \in all : o.tag = "insights" /\ (HasSleep(o) <=> sleep)

InitRepeat ==
    /\ input \in RepeatInputs(MaxRepeatRows)
    /\ output = NotCalled
    /\ session_state = NoSession
    /\ page = "none"
    /\ notice = {}

\* what each function has returned so far, and the number of calls
Seen(fn, out) ==
    [output EXCEPT !.returned[fn] = @ \cup {out}, !.calls = @ + 1]

\* calculate_rhythm_score on the two tables: the first call, or a later one
\* (Processing.py), whose result replaces the one held
CallCalculate ==
    /\ input.tag = "engine"
    /\ LET res == calculate_rhythm_score(input.work_df, input.mood_df)
       IN  IF output = NotCalled
           THEN output' = [tag |-> "engine", results |-> res, calls |-> 1,
                           returned |-> [fn \in {"calculate_rhythm_score", "detect_anomalies",
                                                 "generate_insights"} |->
                                            IF fn = "calculate_rhythm_score" THEN {res} ELSE {}]]
           ELSE /\ output.calls < MaxCalls
                /\ output' = [Seen("calculate_rhythm_score", res) EXCEPT !.results = res]
    /\ UNCHANGED <<session_state, page, notice, input>>

\* detect_anomalies on the table of the result held (Dashboard.py 245)
CallDetect ==
    /\ input.tag = "engine" /\ output # NotCalled
    /\ output.calls < MaxCalls
    /\ output' = Seen("detect_anomalies", detect_anomalies(output.results.merged_data))
    /\ UNCHANGED <<session_state, page, notice, input>>

\* generate_insights on the result held (Insights.py 53): it assigns
\* hour_category to the table of that result
CallGenerate ==
    /\ input.tag = "engine" /\ output # NotCalled
    /\ output.calls < MaxCalls
    /\ output' = [Seen("generate_insights", InsightsHere(output.results))
                    EXCEPT !.results.merged_data = WithHourCategory(@)]
    /\ UNCHANGED <<session_state, page, notice, input>>

\* the column assignments of the pages on the table of the result held
\* (Dashboard.py 277-278, Insights.py 69)
AssignPageColumns ==
    /\ input.tag = "engine" /\ output # NotCalled
    /\ "day_of_week" \notin Range(output.results.merged_data.columns)
    /\ output' = [output EXCEPT !.results.merged_data =
                     AssignColumn(AssignColumn(@, "day_of_week", day_name(@)),
                                  "week", isocalendar_week(@))]
    /\ UNCHANGED <<session_state, page, notice, input>>

NextRepeat == CallCalculate \/ CallDetect \/ CallGenerate \/ AssignPageColumns

SpecRepeat == InitRepeat /\ [][NextRepeat]_vars

-----------------------------------------------------------------------------
(* The end-to-end scenario: three days, the last two of 12 hours with low   *)
(* mood, and the tables made of some of these days                          *)

FixtureWork == <<WorkRow(1, 8 * 10, 10), WorkRow(2, 12 * 10, 15), WorkRow(3, 12 * 10, 2)>>

FixtureMood == <<MoodRow(1, 8, 3, 8), MoodRow(2, 3, 9, 4), MoodRow(3, 2, 9, 4)>>

\* the rows of the days in `days', in the order of the fixture
FixtureRows(rows, days) == SelectSeq(rows, LAMBDA r : r.date \in days)

FixtureInputs ==
    {[tag |-> "engine",
      work_df |-> DataFrame(WorkColumns, FixtureRows(FixtureWork, wd)),
      mood_df |-> DataFrame(MoodColumns, FixtureRows(FixtureMood, md)),
      idxmax_raises |-> raises,
      tie_fires |-> fires] :
        wd \in SUBSET (1..3), md \in SUBSET (1..3), raises \in BOOLEAN, fires \in BOOLEAN}

InitFixture ==
    /\ input \in FixtureInputs
    /\ output = NotCalled
    /\ session_state = NoSession
    /\ page = "none"
    /\ notice = {}

SpecFixture == InitFixture /\ [][NextRepeat]_vars

-----------------------------------------------------------------------------
(* Properties of the join (SpecJoin) *)

Called == output.tag = "result"

Dates(df) == {df.rows[i].date : i \in 1..Len(df.rows)}

UniqueDates(df) == Cardinality(Dates(df)) = Len(df.rows)

SharedDates == Dates(input.work_df) \cap Dates(input.mood_df)

\* the rows of df dated d
RowsOn(df, d) == {i \in 1..Len(df.rows) : df.rows[i].date = d}

\* C1: when no date repeats within the work table or within the wellbeing
\* table, the joined table has exactly one row for every date present in both
\* tables and none for any other date, so it has as many rows as the two date
\* sets have dates in common; the row of a date carries the cells of the work
\* row and of the wellbeing row of that date.
C1_JoinIsDateIntersection ==
    (Called /\ UniqueDates(input.work_df) /\ UniqueDates(input.mood_df)) =>
        LET joined == output.merged_data
        IN  /\ Len(joined.rows) = Cardinality(SharedDates)
            /\ \A d \in 1..(MaxDate + 1) :
                 Cardinality(RowsOn(joined, d)) = IF d \in SharedDates THEN 1 ELSE 0
            /\ \A i \in 1..Len(joined.rows) :
                 \E w \in Range(input.work_df.rows), m \in Range(input.mood_df.rows) :
                    /\ w.date = joined.rows[i].date
                    /\ m.date = joined.rows[i].date
                    /\ joined.rows[i] = JoinRow(w, m)

\* C1's case: unique dates, a shared date kept and an unshared date dropped
C1_Witness ==
    /\ Called
    /\ UniqueDates(input.work_df) /\ UniqueDates(input.mood_df)
    /\ SharedDates # {}
    /\ Dates(input.work_df) \ SharedDates # {}
    /\ Dates(input.mood_df) \ SharedDates # {}
    /\ Len(output.merged_data.rows) = Cardinality(SharedDates)

\* C3: when no date repeats within either table, the rows of the joined table
\* are in strictly ascending date order, whatever the order of the rows of the
\* two tables.
C3_JoinedRowsAscending ==
    (Called /\ UniqueDates(input.work_df) /\ UniqueDates(input.mood_df)) =>
        \A i, j \in 1..Len(output.merged_data.rows) :
            i < j => output.merged_data.rows[i].date < output.merged_data.rows[j].date

-----------------------------------------------------------------------------
(* Properties of the scores (SpecScore) *)

Joined == output.merged_data

NonEmpty == Called /\ Len(Joined.rows) > 0

SumOf(name) == SumSeq(Column(Joined, name))

\* avg(work_hours)/8*50 + avg(tasks_completed)/10*50 over n rows, as one
\* fraction (the sum of the work_hours cells is in tenths)
MachineSum == Rat(5 * SumOf("work_hours") + 40 * SumOf("tasks_completed"), 8 * Len(Joined.rows))

\* avg(mood)/10*40 + (10 - avg(stress))/10*30 + avg(sleep)/8*30, as one fraction
HumanSum ==
    Rat(16 * SumOf("mood_score") + 120 * Len(Joined.rows) - 12 * SumOf("stress_level")
            + 15 * SumOf("sleep_hours"),
        4 * Len(Joined.rows))

NonNegativeWork ==
    \A i \in 1..Len(Joined.rows) :
        Joined.rows[i].work_hours >= 0 /\ Joined.rows[i].tasks_completed >= 0

\* C4: for a non-empty joined table with non-negative work_hours and
\* tasks_completed, machine_score is min(100, avg(work_hours)/8*50 +
\* avg(tasks_completed)/10*50): the sum itself where that is below 100 and 100
\* otherwise, so at most 100 before rounding and as reported.
C4_MachineScoreCapped ==
    (NonEmpty /\ NonNegativeWork) =>
        LET m == MachineScore(Joined)
        IN  /\ m = IF FLess(MachineSum, R(100)) THEN MachineSum ELSE R(100)
            /\ FLeq(m, R(100))
            /\ output.machine_score = Round(m, 1)
            /\ FLeq(output.machine_score, R(100))

\* C4's case: the sum of the two halves is above 100 and the cap applies
C4_Witness ==
    /\ NonEmpty /\ NonNegativeWork
    /\ FGreater(MachineSum, R(100))
    /\ output.machine_score = R(100)

\* (5(m + h) - 2|m - h|) / 10: the mean of the two scores less a fifth of their gap
MeanLessPenalty(m, h) ==
    FDiv(FSub(FMul(R(5), FAdd(m, h)), FMul(R(2), FAbs(FSub(m, h)))), R(10))

\* x is a multiple of 0.1 (or NaN)
OneDecimal(x) == IsNaN(x) \/ 10 % x.d = 0

\* C5: the reported rhythm_score is (machine_score + human_score)/2 -
\* balance_penalty, computed from the unrounded scores and then rounded to
\* one decimal; machine_score and human_score are reported rounded to one
\* decimal.
C5_RhythmFromUnroundedScores ==
    Called =>
        LET m == MachineScore(Joined)
            h == HumanScore(Joined)
        IN  /\ output.rhythm_score = Round(MeanLessPenalty(m, h), 1)
            /\ output.machine_score = Round(m, 1)
            /\ output.human_score = Round(h, 1)
            /\ OneDecimal(output.rhythm_score)
            /\ OneDecimal(output.machine_score)
            /\ OneDecimal(output.human_score)

\* C5's case: rounding the scores first would have given another rhythm score
C5_Witness ==
    /\ NonEmpty
    /\ output.human_score # HumanScore(Joined)
    /\ output.rhythm_score # MeanLessPenalty(MachineScore(Joined), HumanScore(Joined))
    /\ output.rhythm_score
         # Round(MeanLessPenalty(output.machine_score, output.human_score), 1)

Gap == FAbs(FSub(MachineScore(Joined), HumanScore(Joined)))

\* C6 as stated: balance_penalty is |machine_score - human_score|/100*20 and
\* never exceeds 20 points.
C6_PenaltyAtMost20 ==
    NonEmpty =>
        /\ BalancePenalty(MachineScore(Joined), HumanScore(Joined)) = FDiv(Gap, R(5))
        /\ FLeq(BalancePenalty(MachineScore(Joined), HumanScore(Joined)), R(20))

\* C6 as amended: balance_penalty is |machine_score - human_score|/100*20; it
\* is at most 20 exactly when the gap between the two scores is at most 100
\* and 20 exactly when the gap is 100; a gap above 100 (human_score is not
\* clamped) gives a penalty above 20.
C6_PenaltyIsFifthOfGap ==
    NonEmpty =>
        LET p == BalancePenalty(MachineScore(Joined), HumanScore(Joined))
        IN  /\ p = FDiv(Gap, R(5))
            /\ FLeq(p, R(20)) <=> FLeq(Gap, R(100))
            /\ p = R(20) <=> Gap = R(100)
            /\ output.rhythm_score
                 = Round(FSub(FDiv(FAdd(MachineScore(Joined), HumanScore(Joined)), R(2)),
                              FDiv(Gap, R(5))), 1)

\* C6's case: the two scores are more than 100 apart
C6_Witness ==
    /\ NonEmpty
    /\ FGreater(Gap, R(100))
    /\ FGreater(BalancePenalty(MachineScore(Joined), HumanScore(Joined)), R(20))

\* C7: human_score is avg(mood_score)/10*40 + (10 - avg(stress_level))/10*30
\* + avg(sleep_hours)/8*30 with no clamp: a value above 100 or below 0 is
\* reported as it is (rounded to one decimal).
C7_HumanScoreUnclamped ==
    NonEmpty =>
        /\ HumanScore(Joined) = HumanSum
        /\ output.human_score = Round(HumanSum, 1)

\* C7's case: a human score above 100 is reported
C7_Witness ==
    /\ NonEmpty
    /\ FGreater(HumanSum, R(100))
    /\ FGreater(output.human_score, R(100))

\* C7's other case: a human score below 0 is reported
C7_WitnessBelowZero ==
    /\ NonEmpty
    /\ FLess(HumanSum, R(0))
    /\ FLess(output.human_score, R(0))

-----------------------------------------------------------------------------
(* Properties of the correlation (SpecCorr) *)

ConstantWorkHours ==
    \A i, j \in 1..Len(Joined.rows) : Joined.rows[i].work_hours = Joined.rows[j].work_hours

\* C8: when work_hours is the same on every row of the joined table (a table
\* of one row included), the reported correlation is undefined (NaN), never a
\* number.
C8_ConstantHoursUndefinedCorrelation ==
    (Called /\ ConstantWorkHours) => IsNaN(output.correlation)

-----------------------------------------------------------------------------
(* Properties of the anomaly detection (SpecAnomalies, SpecTrend) *)

Detected == output.tag = "anomalies"

Rows == input.merged_df.rows

\* the entries of the returned list with a title
Entries(title) == {i \in 1..Len(output.list) : output.list[i].title = title}

BurnoutRows == {i \in 1..Len(Rows) : Rows[i].work_hours > 100 /\ Rows[i].mood_score < 5}

\* C11: the burnout-risk anomaly (type 'danger') is in the list exactly when
\* at least one row has work_hours > 10 and mood_score < 5, both strict, and
\* its description carries the number of such rows.
C11_BurnoutExactlyWhenRows ==
    Detected =>
        /\ Entries("Burnout Risk Detected") # {} <=> BurnoutRows # {}
        /\ \A i \in Entries("Burnout Risk Detected") :
             /\ output.list[i].type = "danger"
             /\ output.list[i].description.value = R(Cardinality(BurnoutRows))

\* C11's case: two burnout days are counted; a day of exactly 10 hours and a
\* day of mood exactly 5 are not
C11_Witness ==
    /\ Detected
    /\ Cardinality(BurnoutRows) = 2
    /\ \E i \in 1..Len(Rows) : Rows[i].work_hours = 100 /\ Rows[i].mood_score < 5
    /\ \E i \in 1..Len(Rows) : Rows[i].work_hours > 100 /\ Rows[i].mood_score = 5
    /\ \E i \in Entries("Burnout Risk Detected") : output.list[i].description.value = R(2)

\* the rows i..j are all days of more than 9 hours
OverworkRun(i, j) == \A k \in i..j : Rows[k].work_hours > 90

\* the length of the longest run of adjacent days of more than 9 hours
LongestRun ==
    LET lens == {j - i + 1 : <<i, j>> \in {p \in (1..Len(Rows)) \X (1..Len(Rows)) :
                                            p[1] <= p[2] /\ OverworkRun(p[1], p[2])}}
    IN  IF lens = {} THEN 0 ELSE CHOOSE n \in lens : \A k \in lens : k <= n

\* C12: the extended-overwork anomaly (type 'warning') is in the list exactly
\* when the longest run of adjacent rows with work_hours > 9 has length at
\* least 3, and it reports that length; a row of at most 9 hours ends the
\* run, so the runs on its two sides are not added together.
C12_OverworkLongestRun ==
    Detected =>
        /\ Entries("Extended Overwork Period") # {} <=> LongestRun >= 3
        /\ \A i \in Entries("Extended Overwork Period") :
             /\ output.list[i].type = "warning"
             /\ output.list[i].description.value = R(LongestRun)

\* C12's case: work hours 10, 10, 10, 8, 10, 10, 10 report 3
C12_Witness ==
    /\ Detected
    /\ Column(input.merged_df, "work_hours") = <<100, 100, 100, 80, 100, 100, 100>>
    /\ \E i \in Entries("Extended Overwork Period") : output.list[i].description.value = R(3)

\* C12's other case: a day of exactly 9 hours ends a run
C12_WitnessNineHours ==
    /\ Detected
    /\ Column(input.merged_df, "work_hours") = <<100, 100, 90, 100>>
    /\ Entries("Extended Overwork Period") = {}

ShortNights == {i \in 1..Len(Rows) : Rows[i].sleep_hours < 6}

\* C13: the sleep-deficit anomaly (type 'warning') is in the list exactly
\* when more than 3 rows have sleep_hours < 6; 3 such rows, or rows of exactly
\* 6 hours, do not make it fire.
C13_SleepDeficitAboveThree ==
    Detected =>
        /\ Entries("Sleep Deficit Pattern") # {} <=> Cardinality(ShortNights) > 3
        /\ \A i \in Entries("Sleep Deficit Pattern") :
             /\ output.list[i].type = "warning"
             /\ output.list[i].description.value = R(Cardinality(ShortNights))

\* C13's case: 4 short nights fire the rule
C13_Witness ==
    /\ Detected
    /\ Cardinality(ShortNights) = 4
    /\ Entries("Sleep Deficit Pattern") # {}

\* C13's other case: 3 short nights and a night of exactly 6 hours do not
C13_WitnessThreeNights ==
    /\ Detected
    /\ Cardinality(ShortNights) = 3
    /\ \E i \in 1..Len(Rows) : Rows[i].sleep_hours = 6
    /\ Entries("Sleep Deficit Pattern") = {}

Moods == Column(input.merged_df, "mood_score")

\* the mean mood of the last 7 rows less the mean mood of the first 7 rows,
\* as an exact fraction (for more than 7 rows)
TrendGap ==
    FSub(Mean(SubSeq(Moods, Len(Moods) - 6, Len(Moods))), Mean(SubSeq(Moods, 1, 7)))

\* C14: the positive-mood-trend anomaly is never in the list for 7 rows or
\* fewer; for more than 7 rows it is in the list exactly when the mean mood
\* of the last 7 rows exceeds the mean mood of the first 7 rows by more than
\* 1.0 (strictly), the rows shared by the two windows counting in both.
C14_TrendExactlyWhenGapAboveOne ==
    Detected =>
        (Entries("Positive Mood Trend") # {} <=>
            Len(Moods) > 7 /\ FGreater(TrendGap, R(1)))

\* the state C14 fails in: moods 3, 3, 3, 3, 3, 3, 4, 10 have means 22/7 and
\* 29/7, a gap of exactly 1, and the anomaly is in the list
C14_GapOfExactlyOneFires ==
    /\ Detected
    /\ Moods = <<3, 3, 3, 3, 3, 3, 4, 10>>
    /\ TrendGap = R(1)
    /\ \E i \in Entries("Positive Mood Trend") : output.list[i].description.value = R(1)

RuleTitles ==
    {"Burnout Risk Detected", "Sleep Deficit Pattern", "Positive Mood Trend",
     "Extended Overwork Period"}

\* 1 when the rule's condition holds, else 0
Fires(condition) == IF condition THEN 1 ELSE 0

C15_WitnessOverworkAlone ==
    /\ Detected
    /\ BurnoutRows = {} /\ Cardinality(ShortNights) <= 3
    /\ [i \in 1..Len(output.list) |-> output.list[i].title] = <<"Extended Overwork Period">>

C15_WitnessTrendAlone ==
    /\ Detected
    /\ [i \in 1..Len(output.list) |-> output.list[i].title] = <<"Positive Mood Trend">>

C15_WitnessEmptyTable ==
    /\ Detected
    /\ Rows = <<>>
    /\ output.list = <<>>

-----------------------------------------------------------------------------
(* Properties of the insights (SpecInsights) *)

Generated == output.tag \in {"insights", "raised"}

Returned == output.tag = "insights"

\* the table and the correlation of the result the call was made with
Table == input.analysis_results.merged_data

Reported == input.analysis_results.correlation

\* the entries of the returned list with a title
InsightsTitled(title) == {i \in 1..Len(output.list) : output.list[i].title = title}

TypeInsights ==
    /\ input.tag = "generate_insights"
    /\ output = NotCalled \/ Generated

\* C16: for a result computed from a non-empty joined table the call
\* returns at least 2 insights: the peak-productivity and the sweet-spot
\* insight are in every list, and every other entry is a correlation or a
\* sleep insight.
C16_AtLeastTwoInsights ==
    Generated /\ Len(Table.rows) > 0 =>
        /\ Returned
        /\ Len(output.list) >= 2
        /\ InsightsTitled("Peak Productivity Pattern") # {}
        /\ InsightsTitled("Your Sweet Spot Identified") # {}
        /\ \A i \in 1..Len(output.list) :
             output.list[i].title \in
                 {"Peak Productivity Pattern", "Your Sweet Spot Identified",
                  "Negative Work-Wellbeing Link", "Positive Work-Wellbeing Link",
                  "Sleep is Your Superpower"}

\* the state C16 fails in: a one-day table with 0 work hours, and the call
\* raised instead of returning a list
C16_NoCategoryRaises ==
    /\ output = Raised("ValueError")
    /\ Column(Table, "work_hours") = <<0>>

\* what C16 says, on the tables with a row in a category
C16_AtLeastTwoWithACategory ==
    Generated /\ ~NoCategory(Table) =>
        /\ Returned
        /\ Len(output.list) >= 2
        /\ InsightsTitled("Peak Productivity Pattern") # {}
        /\ InsightsTitled("Your Sweet Spot Identified") # {}

\* the link insights of the list are as the thresholds on the reported
\* correlation say: the negative one below -0.3, the positive one above 0.3,
\* neither in between or for an undefined correlation
LinkInsightsByThreshold ==
    /\ InsightsTitled("Negative Work-Wellbeing Link") # {} <=> FLess(Reported, Rat(-3, 10))
    /\ InsightsTitled("Positive Work-Wellbeing Link") # {} <=> FGreater(Reported, Rat(3, 10))
    /\ InsightsTitled("Negative Work-Wellbeing Link") = {}
         \/ InsightsTitled("Positive Work-Wellbeing Link") = {}
    /\ IsNaN(Reported) =>
         /\ InsightsTitled("Negative Work-Wellbeing Link") = {}
         /\ InsightsTitled("Positive Work-Wellbeing Link") = {}

\* C17: the negative-link insight is in the list exactly when the reported
\* correlation is below -0.3, the positive-link insight exactly when it is
\* above 0.3, never both, and neither for a correlation in [-0.3, 0.3] or an
\* undefined one; an undefined correlation is found out before the
\* thresholds, so that no threshold comparison is made on it.
C17_LinkInsightsAndUndefinedCheck ==
    Returned =>
        /\ LinkInsightsByThreshold
        /\ IsNaN(Reported) => output.tests = <<>>

\* the state C17 fails in: the correlation of a one-day table is undefined
\* and both threshold comparisons were made on it
C17_UndefinedFallsThrough ==
    /\ Returned
    /\ Len(Table.rows) = 1
    /\ IsNaN(Reported)
    /\ output.tests = <<"correlation < -0.3", "correlation > 0.3">>

\* what C17 says of the list itself
C17_LinkInsightsOnly == Returned => LinkInsightsByThreshold

\* the cases of C17's list: a negative link, a positive link, a weak
\* correlation and an undefined one
C17_ReachedNegative == Returned /\ FLess(Reported, Rat(-3, 10))

C17_ReachedPositive == Returned /\ FGreater(Reported, Rat(3, 10))

C17_ReachedWeak ==
    Returned /\ FLeq(Rat(-3, 10), Reported) /\ FLeq(Reported, Rat(3, 10))

\* the days of mood 7 or more
HighMoodDays == {i \in 1..Len(Table.rows) : Table.rows[i].mood_score >= 7}

\* the median work hours of the days of mood 7 or more, as an exact
\* fraction: the midpoint of the values, in twentieths of an hour, that have
\* at most half of those days below them and at most half above
MedianHighMoodHours ==
    LET Below(q) == {i \in HighMoodDays : 2 * Table.rows[i].work_hours < q}
        Above(q) == {i \in HighMoodDays : 2 * Table.rows[i].work_hours > q}
        mids == {q \in 0..(2 * 24 * 10) :
                    /\ 2 * Cardinality(Below(q)) <= Cardinality(HighMoodDays)
                    /\ 2 * Cardinality(Above(q)) <= Cardinality(HighMoodDays)}
        least == CHOOSE q \in mids : \A r \in mids : q <= r
        most == CHOOSE q \in mids : \A r \in mids : r <= q
    IN  Rat(least + most, 40)

\* C18: the sweet-spot insight reports the median work_hours of the rows
\* with mood_score >= 7, to one decimal; when no row has mood_score >= 7 the
\* median is undefined and the insight carries the undefined value (NaN),
\* not 0 or any other number.
C18_SweetSpotMedianOrUndefined ==
    Returned =>
        /\ Cardinality(InsightsTitled("Your Sweet Spot Identified")) = 1
        /\ \A i \in InsightsTitled("Your Sweet Spot Identified") :
             IF HighMoodDays = {} THEN IsNaN(output.list[i].value)
             ELSE /\ ~IsNaN(output.list[i].value)
                  /\ Round(output.list[i].value, 1) = output.list[i].value
                  /\ FLeq(FAbs(FSub(output.list[i].value, MedianHighMoodHours)), Rat(1, 20))

\* C18's case: a table with rows, none of mood 7 or more, and the insight
\* carries NaN
C18_Witness ==
    /\ Returned
    /\ Len(Table.rows) > 0
    /\ HighMoodDays = {}
    /\ \E i \in InsightsTitled("Your Sweet Spot Identified") : IsNaN(output.list[i].value)

\* C18's other case: the median of 7.0 and 9.1 hours, 8.05, is reported as 8.1
C18_WitnessMedianOfTwo ==
    /\ Returned
    /\ Cardinality(HighMoodDays) = 2
    /\ MedianHighMoodHours = Rat(805, 100)
    /\ \E i \in InsightsTitled("Your Sweet Spot Identified") :
         output.list[i].value = Rat(81, 10)

\* the bucket of a day by its work hours: up to 7 hours Low, above 7 and up
\* to 9 Optimal, above 9 High
BucketOf(h) == IF h <= 70 THEN "Low" ELSE IF h <= 90 THEN "Optimal" ELSE "High"

DaysIn(bucket) == {i \in 1..Len(Table.rows) : BucketOf(Table.rows[i].work_hours) = bucket}

RECURSIVE MoodTotal(_)
MoodTotal(days) ==
    IF days = {} THEN 0
    ELSE LET d == CHOOSE i \in days : TRUE
         IN  Table.rows[d].mood_score + MoodTotal(days \ {d})

\* the mean mood of a bucket that has days
BucketMean(bucket) == Rat(MoodTotal(DaysIn(bucket)), Cardinality(DaysIn(bucket)))

\* the peak insight names a bucket that has days and whose mean mood no
\* other bucket with days exceeds, and carries that mean to one decimal
PeakIsBestBucket ==
    \A i \in InsightsTitled("Peak Productivity Pattern") :
        /\ output.list[i].category \in {"Low", "Optimal", "High"}
        /\ DaysIn(output.list[i].category) # {}
        /\ \A b \in {"Low", "Optimal", "High"} :
             DaysIn(b) # {} => FLeq(BucketMean(b), BucketMean(output.list[i].category))
        /\ output.list[i].value = Round(BucketMean(output.list[i].category), 1)

\* C19: every row is in the bucket Low, Optimal or High of its work_hours
\* (edges 0, 7, 9, 24; exactly 7 hours is Low, exactly 9 hours is Optimal),
\* and the peak-productivity insight reports the bucket with the highest
\* mean mood_score among the buckets that have rows, with that mean; a
\* bucket without rows is never reported.
C19_PeakReportsBestBucket ==
    Returned =>
        /\ Cardinality(InsightsTitled("Peak Productivity Pattern")) = 1
        /\ PeakIsBestBucket

\* the state C19 fails in: a day of 0 work hours with mood 9 and a day of 9
\* work hours with mood 4; the insight reports Optimal with 4.0
C19_ZeroHourDayLeftOut ==
    /\ Returned
    /\ Column(Table, "work_hours") = <<0, 90>>
    /\ Column(Table, "mood_score") = <<9, 4>>
    /\ \E i \in InsightsTitled("Peak Productivity Pattern") :
         output.list[i].category = "Optimal" /\ output.list[i].value = R(4)

\* what C19 says, on the tables without a day of 0 work hours
C19_PeakReportsBestBucketOfWorkedDays ==
    Returned /\ (\A i \in 1..Len(Table.rows) : Table.rows[i].work_hours > 0) =>
        /\ Cardinality(InsightsTitled("Peak Productivity Pattern")) = 1
        /\ PeakIsBestBucket

\* the edges: a day of exactly 7 hours counted as Low and a day of exactly 9
\* hours as Optimal
C19_ReachedEdges ==
    /\ Returned
    /\ Len(Table.rows) = 3
    /\ Table.rows[1].work_hours = 70 /\ Table.rows[1].hour_category = "Low"
    /\ Table.rows[2].work_hours = 90 /\ Table.rows[2].hour_category = "Optimal"
    /\ Table.rows[3].work_hours = 91 /\ Table.rows[3].hour_category = "High"

-----------------------------------------------------------------------------
(* Properties of the validation (SpecValidate) *)

Validated == output.tag = "validation"

\* the columns the spec requires of each kind
RequiredOf(kind) ==
    IF kind = "work" THEN {"date", "work_hours", "tasks_completed"}
    ELSE {"date", "mood_score", "stress_level", "sleep_hours"}

MissingOf(kind) == RequiredOf(kind) \ Range(input.df.columns)

\* C9: for the kinds work and mood, validate_csv_format returns ok exactly
\* when no required column is missing, whatever other columns the table has;
\* when it returns not ok, the message names every missing required column
\* and nothing else.
C9_ValidExactlyWhenNothingMissing ==
    (Validated /\ input.data_type \in {"work", "mood"}) =>
        /\ output.ok <=> MissingOf(input.data_type) = {}
        /\ ~output.ok =>
             /\ output.message.text = "Missing columns: "
             /\ output.message.names = MissingOf(input.data_type)

\* C9's case: several required columns are missing and other columns are there
C9_Witness ==
    /\ Validated /\ input.data_type = "mood"
    /\ Cardinality(MissingOf("mood")) >= 2
    /\ Range(input.df.columns) \ RequiredOf("mood") # {}
    /\ ~output.ok
    /\ output.message.names = MissingOf("mood")

\* C10: for any kind other than work and mood, validate_csv_format returns
\* not ok with the invalid-kind message, whatever the columns; no validation
\* of a known kind gives that message.
C10_UnknownKindRejected ==
    Validated =>
        IF input.data_type \in {"work", "mood"}
        THEN output.message.text # "Invalid data type"
        ELSE /\ ~output.ok
             /\ output.message = Message("Invalid data type", {})
             /\ output.message.text \notin {"Missing columns: ", "Valid format"}

\* C10's case: an unknown kind with every wellbeing column present
C10_Witness ==
    /\ Validated /\ input.data_type = "wellbeing"
    /\ RequiredOf("mood") \subseteq Range(input.df.columns)
    /\ ~output.ok
    /\ output.message.text = "Invalid data type"

-----------------------------------------------------------------------------
(* Properties of the session (Spec) *)

Stored ==
    /\ Has(session_state, "rhythm_score")
    /\ session_state["rhythm_score"].tag = "result"

\* C2: an analysis of two tables that share no date (or of an empty table)
\* ends in an error, so no result stored in the session has an empty joined
\* table or undefined (NaN) scores and means.
C2_NoUndefinedResultStored ==
    Stored =>
        LET res == session_state["rhythm_score"]
        IN  /\ Len(res.merged_data.rows) > 0
            /\ ~IsNaN(res.rhythm_score) /\ ~IsNaN(res.human_score)
            /\ ~IsNaN(res.avg_work_hours) /\ ~IsNaN(res.avg_mood)
            /\ ~IsNaN(res.avg_stress) /\ ~IsNaN(res.avg_sleep)

\* a run of Processing.py that computes: the flag goes from unset to True
\* and the result of a new call replaces the stored one
Recalculated ==
    /\ Has(session_state, "analysis_complete")
    /\ PyNot(session_state["analysis_complete"])
    /\ ~PyNot(session_state'["analysis_complete"])

\* C20: once calculate_rhythm_score has returned a result and it is stored,
\* no later operation changes it: whatever pages run (the dashboard with
\* detect_anomalies, the insights page with generate_insights), the scalar
\* fields and the columns and rows of the joined table stay as they were
\* created, until a new analysis replaces the result.
C20_StoredResultNeverChanged ==
    [][Stored => \/ session_state'["rhythm_score"] = session_state["rhythm_score"]
                 \/ Recalculated]_vars

\* the state C20 fails in: the joined table of the stored result has the
\* columns the pages added to it
C20_ColumnsAdded ==
    /\ Stored
    /\ {"hour_category", "day_of_week", "week"} \subseteq
           Range(session_state["rhythm_score"].merged_data.columns)

\* what C20 says of the scalar fields, and of the rows and columns the
\* result was created with: those stay
C20_CreatedFieldsKept ==
    [][Stored /\ ~Recalculated =>
          LET old == session_state["rhythm_score"]
              new == session_state'["rhythm_score"]
          IN  /\ [f \in DOMAIN old \ {"merged_data"} |-> new[f]] =
                   [f \in DOMAIN old \ {"merged_data"} |-> old[f]]
              /\ Len(new.merged_data.rows) = Len(old.merged_data.rows)
              /\ \A c \in Range(old.merged_data.columns) \ {"hour_category", "week", "day_of_week"} :
                   /\ c \in Range(new.merged_data.columns)
                   /\ Column(new.merged_data, c) = Column(old.merged_data, c)]_vars

-----------------------------------------------------------------------------
(* Properties of repeated calls (SpecRepeat) *)

Engine == output.tag = "engine"

\* C21: the engine is deterministic: on the same two tables each of
\* calculate_rhythm_score, detect_anomalies and generate_insights returns
\* the same output on every call, whatever was called or rendered before and
\* however often generate_insights already ran on the result.
C21_SameOutputOnEveryCall ==
    Engine => \A fn \in DOMAIN output.returned : Cardinality(output.returned[fn]) <= 1

\* C21's case: generate_insights and detect_anomalies have both returned
\* after an earlier generate_insights and the pages had added their columns
\* to the table, which has a day without a category
C21_Witness ==
    /\ Engine
    /\ output.calls = MaxCalls
    /\ output.returned["generate_insights"] # {}
    /\ output.returned["detect_anomalies"] # {}
    /\ {"hour_category", "day_of_week", "week"} \subseteq
           Range(output.results.merged_data.columns)
    /\ \E i \in 1..Len(output.results.merged_data.rows) :
           output.results.merged_data.rows[i].hour_category = "nan"

-----------------------------------------------------------------------------
(* Properties of the reports (Spec) *)

\* the reports offered for download by the last run of a page
Reports == {n \in notice : "report" \in DOMAIN n}

ScoreColumns == {"rhythm_score", "machine_score", "human_score"}

\* the columns the pages and generate_insights assign to the joined table
PageColumns == {"hour_category", "day_of_week", "week"}

\* C22: every report offered for download, on the Dashboard page and on the
\* Insights page, has exactly the columns of the original joined table plus
\* rhythm_score, machine_score and human_score, each holding the scalar of
\* the stored result on every row, whatever pages were rendered before.
C22_ReportColumns ==
    \A n \in Reports :
        LET res == session_state["rhythm_score"]
        IN  /\ Range(n.report.columns) =
                 (Range(res.merged_data.columns) \ PageColumns) \cup ScoreColumns
            /\ \A i \in 1..Len(n.report.rows) : \A c \in ScoreColumns :
                 n.report.rows[i][c] = res[c]

\* the states C22 fails in: the Dashboard's report has none of the three
\* score columns, and the report of the Insights page has the scores and
\* with them the columns hour_category and week
C22_DashboardReportWithoutScores ==
    \E n \in Reports :
        /\ n.from = "Dashboard"
        /\ Len(n.report.rows) > 0
        /\ Range(n.report.columns) \cap ScoreColumns = {}

C22_InsightsReportWithPageColumns ==
    \E n \in Reports :
        /\ n.from = "Insights"
        /\ Len(n.report.rows) > 0
        /\ ScoreColumns \subseteq Range(n.report.columns)
        /\ {"hour_category", "week"} \subseteq Range(n.report.columns)

\* what C22 says of the scores, for the report of the Insights page
C22_InsightsReportScores ==
    \A n \in Reports :
        n.from = "Insights" =>
            /\ ScoreColumns \subseteq Range(n.report.columns)
            /\ \A i \in 1..Len(n.report.rows) : \A c \in ScoreColumns :
                 n.report.rows[i][c] = session_state["rhythm_score"][c]

-----------------------------------------------------------------------------
(* Properties of the end-to-end scenario (SpecFixture) *)

WholeFixture ==
    /\ Engine
    /\ input.work_df.rows = FixtureWork
    /\ input.mood_df.rows = FixtureMood

\* C23: for the work table [(d1, 8h, 10 tasks), (d2, 12h, 15), (d3, 12h, 2)]
\* and the wellbeing table [(d1, 8, 3, 8), (d2, 3, 9, 4), (d3, 2, 9, 4)] the
\* joined table has 3 rows, machine_score is 100, human_score 46.3,
\* rhythm_score 62.4, and detect_anomalies returns the burnout anomaly with a
\* count of 2 and nothing else.
C23_FixtureScoresAndAnomalies ==
    WholeFixture =>
        /\ Len(output.results.merged_data.rows) = 3
        /\ output.results.machine_score = R(100)
        /\ output.results.human_score = Rat(463, 10)
        /\ output.results.rhythm_score = Rat(624, 10)
        /\ \A as \in output.returned["detect_anomalies"] :
             /\ Len(as) = 1
             /\ as[1].title = "Burnout Risk Detected"
             /\ as[1].description.value = R(2)

C23_Witness ==
    /\ WholeFixture
    /\ output.returned["detect_anomalies"] # {}
    /\ output.results.rhythm_score = Rat(624, 10)

-----------------------------------------------------------------------------
(* Properties of the session: the stored result and the tables (Spec) *)

\* a result as calculate_rhythm_score created it: without the columns the
\* pages and generate_insights assign to its table
Created(res) ==
    [res EXCEPT !.merged_data =
        DataFrame(SelectSeq(@.columns, LAMBDA c : c \notin PageColumns),
                  [i \in 1..Len(@.rows) |->
                      [c \in DOMAIN @.rows[i] \ PageColumns |-> @.rows[i][c]]])]

TablesLoaded ==
    /\ Has(session_state, "work_data") /\ Has(session_state, "mood_data")
    /\ session_state["work_data"] # None /\ session_state["mood_data"] # None

\* the stored result is the one of the two tables the session holds now
OfCurrentTables ==
    /\ TablesLoaded
    /\ Created(session_state["rhythm_score"]) =
         calculate_rhythm_score(session_state["work_data"], session_state["mood_data"])

\* C24: in every reachable session state, a stored result that the Dashboard
\* or the Insights page would display (rhythm_score not None) was computed
\* from the work_data and mood_data the session holds now: once a table is
\* replaced by an upload or by Load Sample Data, the earlier result is no
\* longer displayable until a new analysis has run.
C24_DisplayableResultOfCurrentTables == Stored => OfCurrentTables

\* the state C24 fails in: the Dashboard has rendered a result that is not
\* the one of the tables the session holds
C24_StaleResultDisplayed ==
    /\ Stored /\ TablesLoaded /\ ~OfCurrentTables
    /\ page = "Dashboard"
    /\ \E n \in notice : n.from = "Dashboard" /\ n.ok

\* what does hold: the run of Processing.py that computes stores the result
\* of the tables held at that moment
C24_FreshWhenComputed ==
    [][Recalculated =>
         /\ Created(session_state'["rhythm_score"]) =
              calculate_rhythm_score(session_state["work_data"], session_state["mood_data"])
         /\ session_state'["work_data"] = session_state["work_data"]
         /\ session_state'["mood_data"] = session_state["mood_data"]]_vars

-----------------------------------------------------------------------------
(* Properties of the session: the keys the pages read (Spec) *)

\* the last run ended on a key the session lacks
MissingKey(from) ==
    \E n \in notice : n.from = from /\ n.message.text = "AttributeError"

\* C25: whichever page a session opens first and in whatever order pages are
\* visited afterwards, every session key a page reads (work_data, mood_data,
\* rhythm_score, analysis_complete) was initialised before the read, so no
\* page fails on a missing key.
C25_NoPageFailsOnMissingKey ==
    ~MissingKey("Dashboard") /\ ~MissingKey("Processing")

\* the states C25 fails in: the Dashboard opened in a session that has no
\* rhythm_score, as the first page and after the upload page (which sets the
\* three other keys); Processing.py opened first
C25_DashboardOpenedFirst ==
    MissingKey("Dashboard") /\ session_state = NoSession

C25_DashboardAfterUpload ==
    /\ MissingKey("Dashboard")
    /\ DOMAIN session_state = {"work_data", "mood_data", "analysis_complete"}

C25_ProcessingOpenedFirst ==
    MissingKey("Processing") /\ session_state = NoSession

\* what does hold: after app.py has run, no page fails on a missing key
C25_NoMissingKeyAfterApp ==
    Has(session_state, "rhythm_score") /\ Has(session_state, "analysis_complete")
        /\ Has(session_state, "work_data") /\ Has(session_state, "mood_data")
    => C25_NoPageFailsOnMissingKey

-----------------------------------------------------------------------------
(* Properties of the session: Analyze Rhythm and the Processing step (Spec) *)

FlagTrue ==
    /\ Has(session_state, "analysis_complete")
    /\ ~PyNot(session_state["analysis_complete"])

\* C26: Analyze Rhythm can be pressed only with work_data and mood_data both
\* loaded, and a press resets analysis_complete; the Processing step that
\* follows computes the result of the two tables held at that moment and
\* stores it in the place of any earlier one; a Processing step that finds
\* analysis_complete true computes nothing and leaves the stored result as
\* it is.
C26_AnalyzeRecomputesAndProcessingSkips ==
    [][/\ page' = "->Processing" =>
            /\ AnalyzeShown(session_state)
            /\ AnalyzeShown(session_state')
            /\ session_state'["analysis_complete"] = PyBool(FALSE)
       /\ page = "->Processing" =>
            /\ session_state'["rhythm_score"] =
                 calculate_rhythm_score(session_state["work_data"], session_state["mood_data"])
            /\ session_state'["analysis_complete"] = PyBool(TRUE)
            /\ session_state'["work_data"] = session_state["work_data"]
            /\ session_state'["mood_data"] = session_state["mood_data"]
            /\ page' = "->Dashboard"
       /\ RunProcessing /\ FlagTrue => UNCHANGED session_state]_vars

\* the Processing step after a press has stored the result of the tables held
C26_Witness ==
    /\ page = "->Dashboard"
    /\ Stored /\ FlagTrue /\ OfCurrentTables
    /\ Len(session_state["rhythm_score"].merged_data.rows) > 0

\* Analyze Rhythm pressed while the session stores the result of earlier
\* tables: the Processing step that follows replaces it
C26_EarlierResultToReplace ==
    /\ page = "->Processing"
    /\ Stored /\ ~OfCurrentTables

\* Processing.py opened while analysis_complete is true and the stored
\* result is of earlier tables: it has been left as it was
C26_ProcessingSkipped ==
    /\ page = "->Dashboard"
    /\ Stored /\ FlagTrue /\ ~OfCurrentTables

-----------------------------------------------------------------------------
(* Properties of the session: the flag and the stored result (Spec) *)

\* C27: in every reachable session state, analysis_complete being true
\* implies that a result is stored (rhythm_score is there and not None): the
\* flag becomes true only in the step that stores the result, and no
\* operation clears the result while it leaves the flag true.
C27_FlagImpliesStoredResult == FlagTrue => Stored

\* the flag is true and the result stored, pages later: on the upload page
\* with the columns of the Dashboard and of the Insights page on the table
C27_Witness ==
    /\ FlagTrue /\ Stored
    /\ page = "Upload_Data"
    /\ PageColumns \subseteq Range(session_state["rhythm_score"].merged_data.columns)

\* the two halves of C27 step by step: the flag turns true only together
\* with a result being stored, and a stored result is never taken away
C27_FlagSetWithResultAndResultKept ==
    [][/\ ~FlagTrue /\ FlagTrue' => Stored' /\ RunProcessing
       /\ Stored => Stored']_vars

-----------------------------------------------------------------------------
(* Properties of the session: uploads that fail (Spec) *)

\* a file that cannot be read or parsed (no date column to parse included),
\* or whose table lacks a column required of its kind
Rejected(file, kind) ==
    /\ file # NoFile
    /\ \/ ~file.readable
       \/ "date" \notin Range(file.df.columns)
       \/ ~(required_columns(kind) \subseteq Range(file.df.columns))

Accepted(file, kind) == file # NoFile /\ ~Rejected(file, kind)

ErrorReported(key) == \E n \in notice : n.from = key /\ ~n.ok

\* C28: an uploaded file that fails column validation, or cannot be read or
\* parsed, is reported as an error and leaves the session as it was: the
\* table of that kind loaded before, the other table, the stored result and
\* analysis_complete all keep their values (the other table changes only by
\* an upload of its own that is accepted in the same run).
C28_FailedUploadLeavesSession ==
    [][\A wf \in WorkFiles \cup {NoFile}, mf \in MoodFiles \cup {NoFile} :
         (Rejected(wf, "work") \/ Rejected(mf, "mood"))
            /\ page = "Upload_Data" /\ page' = "Upload_Data"
            /\ RunUpload(wf, mf) =>
            /\ Rejected(wf, "work") =>
                 /\ ErrorReported("work_data")'
                 /\ session_state'["work_data"] = session_state["work_data"]
            /\ Rejected(mf, "mood") =>
                 /\ ErrorReported("mood_data")'
                 /\ session_state'["mood_data"] = session_state["mood_data"]
            /\ ~Accepted(wf, "work") /\ ~Accepted(mf, "mood") =>
                 session_state' = session_state
            /\ [k \in DOMAIN session_state \ {"work_data", "mood_data"} |-> session_state[k]] =
                 [k \in DOMAIN session_state' \ {"work_data", "mood_data"} |-> session_state'[k]]
      ]_vars

\* a work file has been rejected in a session that holds two tables, a
\* result and the flag: all of them are still there
C28_Witness ==
    /\ page = "Upload_Data"
    /\ ErrorReported("work_data")
    /\ TablesLoaded /\ Stored /\ FlagTrue

\* a wellbeing file rejected likewise
C28_WitnessMood ==
    /\ page = "Upload_Data"
    /\ ErrorReported("mood_data")
    /\ TablesLoaded /\ Stored /\ FlagTrue

-----------------------------------------------------------------------------
(* Properties of the session: the Dashboard and an undefined correlation (Spec) *)

\* the correlation cards the last run of the Dashboard has shown
Cards == {n \in notice : "delta" \in DOMAIN n}

WeakMessage == "Weak correlation between work hours and mood"

\* C29: when the reported correlation is undefined, the Dashboard takes it
\* for no correlation signal and not for an error: the page renders, shows
\* the weak-correlation message, and labels the strength of the correlation
\* neither 'Strong' nor 'Moderate'.
C29_UndefinedCorrelationUnlabelled ==
    \A n \in Cards :
        IsNaN(n.value) =>
            /\ n.ok
            /\ n.message.text = WeakMessage
            /\ n.delta \notin {"Strong", "Moderate"}

\* the state C29 fails in: the card of an undefined correlation says Moderate
C29_UndefinedLabelledModerate ==
    \E n \in Cards : IsNaN(n.value) /\ n.delta = "Moderate"

\* what C29 says of the page and of the message does hold
C29_UndefinedRendersWeakMessage ==
    \A n \in Cards :
        IsNaN(n.value) => n.ok /\ n.message.text = WeakMessage /\ n.insight_type = "warning"

\* the card of a defined correlation, for comparison: -1.0 is Strong
C29_DefinedLabelledStrong ==
    \E n \in Cards : ~IsNaN(n.value) /\ n.delta = "Strong"

-----------------------------------------------------------------------------
(* Properties of the rhythm score as a blend of the two scores (SpecBlend) *)

PyMax(a, b) == IF FGreater(b, a) THEN b ELSE a

\* C30: for every non-empty joined table the unrounded rhythm score is
\* 0.7 * min(machine_score, human_score) + 0.3 * max(machine_score,
\* human_score); so it is never below the smaller of the two scores, never
\* above their mean, and equal to the mean only when the two are equal.
C30_RhythmIsBlendOfMinAndMax ==
    NonEmpty =>
        LET m == MachineScore(Joined)
            h == HumanScore(Joined)
            rhythm == RhythmScore(m, h)
            mean == FDiv(FAdd(m, h), R(2))
        IN  /\ rhythm = FAdd(FMul(Rat(7, 10), PyMin(m, h)), FMul(Rat(3, 10), PyMax(m, h)))
            /\ FLeq(PyMin(m, h), rhythm)
            /\ FLeq(rhythm, mean)
            /\ rhythm = mean <=> m = h
            /\ output.rhythm_score = Round(rhythm, 1)

\* C30's cases: the machine score the smaller one, the human score the
\* smaller one, and the two equal (the rhythm score is then their mean)
C30_Witness ==
    /\ NonEmpty
    /\ FLess(HumanScore(Joined), MachineScore(Joined))
    /\ FLess(HumanScore(Joined), RhythmScore(MachineScore(Joined), HumanScore(Joined)))

C30_WitnessMachineSmaller ==
    /\ NonEmpty
    /\ FLess(MachineScore(Joined), HumanScore(Joined))

C30_WitnessEqualScores ==
    /\ NonEmpty
    /\ MachineScore(Joined) = HumanScore(Joined)
    /\ output.rhythm_score = output.machine_score

=============================================================================
